---- MODULE Spec2Model ----
(***************************************************************************)
(* Verification model of the personality-quiz application.                 *)
(*   - Flow Controller: App component state and its timer-driven handlers  *)
(*     (src/unnamed/part_000).                                             *)
(*   - Scoring Engine: calculateResults (src/unnamed/part_000).            *)
(*   - Message Tag Codec: saveChatMessage / getChatHistory / rateMessage   *)
(*     (src/services/dataService.ts).                                      *)
(*   - Chat session: handleSendMessage, handleRateMessage and the          *)
(*     chat_history table they write to and read from.                     *)
(*   - Phone Canonicalizer: normalizePhoneNumber                           *)
(*     (src/services/dataService.ts).                                      *)
(*   - Register view: isRegistrationValid, handleRegistrationContinue      *)
(*     (src/unnamed/part_000) and registerUser (dataService.ts).           *)
(*   - Authentication: the views before the quiz, handleLogin (part_000)   *)
(*     and loginUser, updateUserProfile (dataService.ts).                  *)
(*   - Sessions: the result view, the chat overlay, the conversational     *)
(*     context (chatInstance) and resetAll (part_000).                     *)
(* Time is counted in ticks of 25 ms: the setTimeout delays 400, 300, 600  *)
(* and 1200 ms are whole numbers of ticks, and the four instants inside    *)
(* each 100 ms let up to three pending callbacks and an input take any     *)
(* order of their offsets.  Callbacks due at the same instant run in the   *)
(* order in which they were scheduled.                                     *)
(***************************************************************************)
EXTENDS Integers, Sequences, FiniteSets, TLC

VARIABLES
  view,          \* ViewState
  currentStep,   \* index into QUESTIONS, or QUESTIONS.length at "100%"
  isAnimating,   \* guard "advancing"
  isPulsing,     \* guard "confirming"
  isShattering,  \* guard "finalizing"
  isSending,     \* sending flag
  answers,       \* Answers: question id -> magnitude
  result,        \* ScoringResult | null
  cachedResult,  \* localStorage[STORAGE_KEY_RESULT]
  authError,     \* error banner text
  timers,        \* pending setTimeout callbacks, in creation order
  saves,         \* finishQuiz calls suspended at `await saveResultToSpreadsheet`
  ev,            \* history: the last event that was processed
  commits,       \* history: number of times the commit sequence was started
  resultSets,    \* history: number of times setView('result') ran in the quiz
  sAnswers,      \* Scoring Engine under test: the input AnswerSet
  sResult,       \* Scoring Engine under test: the value returned
  cText,         \* Tag Codec under test: the display text of the message
  cRating,       \* Tag Codec under test: the rating it was last encoded with
  cStored,       \* Tag Codec under test: the content column of the stored row
  cDecoded,      \* Tag Codec under test: the message decoded from the row
  cPhase,        \* Tag Codec under test: "text", "stored" or "decoded"
  registration,  \* RegistrationData held by the component
  cachedUser,    \* localStorage[STORAGE_KEY_USER]
  rows,          \* chat_history table, in created_at order
  chatMessages,  \* ChatMessageData[] held by the component
  sendPhase,     \* position of initChat / handleSendMessage
  stream,        \* handleSendMessage: the chunks received from the stream
  sentText,      \* handleSendMessage: the trimmed user text
  calls,         \* rateMessage invocations in flight
  chatEv,        \* history: the last chat event, the button and the call it served
  inputs,        \* history: number of sends, chunks and rating clicks so far
  userPhone,     \* localStorage['user_phone']
  pBody,         \* Phone Canonicalizer under test: the digits the user means
  pEntries,      \* Phone Canonicalizer under test: the forms typed and their keys
  confirmPassword, \* register view: the repeated password
  profiles,      \* quiz_results table: the profile rows, one per phone
  registerCalls, \* handleRegistrationContinue calls suspended at `await registerUser`
  regEv,         \* history: the last event of the register view
  regInputs,     \* history: number of field edits and submissions so far
  chatInstance,  \* chatInstance.current: the conversational context, or null
  sentAt,        \* history: where the user message of the send in progress was put
  resetTimer,    \* seconds left before the reset button is enabled
  loginCalls,    \* handleLogin calls suspended at `await loginUser`
  retake         \* localStorage['personality_quiz_retake']

flowVars == <<view, currentStep, isAnimating, isPulsing, isShattering, isSending,
              answers, result, cachedResult, authError, timers, saves, ev,
              commits, resultSets, registration, cachedUser, resetTimer>>
scoreVars == <<sAnswers, sResult>>
codecVars == <<cText, cRating, cStored, cDecoded, cPhase>>
chatVars == <<rows, chatMessages, sendPhase, stream, sentText, calls, chatEv,
              inputs, userPhone, chatInstance, sentAt>>
phoneVars == <<pBody, pEntries>>
registerVars == <<confirmPassword, profiles, registerCalls, regEv, regInputs>>
sessionVars == <<loginCalls, retake>>
nonFlowVars ==
  <<scoreVars, codecVars, chatVars, phoneVars, registerVars, sessionVars>>
nonScoreVars ==
  <<flowVars, codecVars, chatVars, phoneVars, registerVars, sessionVars>>
nonCodecVars ==
  <<flowVars, scoreVars, chatVars, phoneVars, registerVars, sessionVars>>
nonChatVars ==
  <<flowVars, scoreVars, codecVars, phoneVars, registerVars, sessionVars>>
nonPhoneVars ==
  <<flowVars, scoreVars, codecVars, chatVars, registerVars, sessionVars>>
\* what the register view leaves alone
nonRegisterVars ==
  <<currentStep, isAnimating, isPulsing, isShattering, answers, result,
    cachedResult, timers, saves, ev, commits, resultSets, scoreVars, codecVars,
    rows, chatMessages, sendPhase, stream, sentText, calls, chatEv, inputs,
    chatInstance, sentAt, resetTimer, phoneVars, sessionVars>>
vars == <<flowVars, scoreVars, codecVars, chatVars, phoneVars, registerVars,
         sessionVars>>

(***************************************************************************)
(* Program constants                                                       *)
(***************************************************************************)
NumQuestions == 32            \* QUESTIONS.length
QuestionId(i) == i + 1        \* QUESTIONS[i].id, items are numbered 1..32 in order
Magnitudes == 1 .. 5          \* the five circles of the scale
PulseDelay == 16              \* 400 ms
AnimDelay == 12               \* 300 ms
SaturateDelay == 24           \* 600 ms
ShatterDelay == 48            \* 1200 ms
ResetDelay == 30              \* seconds the reset button stays disabled

(***************************************************************************)
(* Bounds of the model                                                     *)
(***************************************************************************)
\* The respondent picks any magnitude on the last NumFree questions and the
\* middle circle (3) on the questions before them.
NumFree == 1
\* Scoring inputs: number of items that deviate from a base answer set.
MaxDev == 1

\* RegistrationData: the empty form of useState, and the profile of the respondent
NoProfile == "empty"
Profile == "respondent"
EmptyAnswers == [i \in {} |-> 3]
NoResult == [EI |-> 0, SN |-> 0, FT |-> 0, JP |-> 0, type |-> <<>>]

(***************************************************************************)
(* Scoring Engine                                                          *)
(***************************************************************************)
getVal_DefaultZero(currentAnswers, id) ==
  IF id \in DOMAIN currentAnswers THEN currentAnswers[id] ELSE 0

getVal(currentAnswers, id) ==
  IF id \in DOMAIN currentAnswers THEN currentAnswers[id] ELSE 3

\* the letter of the third axis is picked from the pair of the second
calculateResults_WrongPair(currentAnswers) ==
  LET g(id) == getVal(currentAnswers, id)
      ieValue == 30 - g(3) - g(7) - g(11) + g(15) - g(19) + g(23) + g(27) - g(31)
      snValue == 12 + g(4) + g(8) + g(12) + g(16) + g(20) - g(24) - g(28) + g(32)
      ftValue == 30 - g(2) + g(6) + g(10) - g(14) - g(18) + g(22) - g(26) - g(30)
      jpValue == 18 + g(1) + g(5) - g(9) + g(13) - g(17) + g(21) - g(25) + g(29)
      ei == IF ieValue > 24 THEN "E" ELSE "I"
      sn == IF snValue > 24 THEN "N" ELSE "S"
      ft == IF ftValue > 24 THEN "T" ELSE "S"
      jp == IF jpValue > 24 THEN "P" ELSE "J"
  IN [EI |-> ieValue, SN |-> snValue, FT |-> ftValue, JP |-> jpValue,
      type |-> <<ei, sn, ft, jp>>]

\* item 28 enters the second axis with the wrong sign
calculateResults_SignSlip(currentAnswers) ==
  LET g(id) == getVal(currentAnswers, id)
      ieValue == 30 - g(3) - g(7) - g(11) + g(15) - g(19) + g(23) + g(27) - g(31)
      snValue == 6 + g(4) + g(8) + g(12) + g(16) + g(20) - g(24) + g(28) + g(32)
      ftValue == 30 - g(2) + g(6) + g(10) - g(14) - g(18) + g(22) - g(26) - g(30)
      jpValue == 18 + g(1) + g(5) - g(9) + g(13) - g(17) + g(21) - g(25) + g(29)
      ei == IF ieValue > 24 THEN "E" ELSE "I"
      sn == IF snValue > 24 THEN "N" ELSE "S"
      ft == IF ftValue > 24 THEN "T" ELSE "F"
      jp == IF jpValue > 24 THEN "P" ELSE "J"
  IN [EI |-> ieValue, SN |-> snValue, FT |-> ftValue, JP |-> jpValue,
      type |-> <<ei, sn, ft, jp>>]

calculateResults(currentAnswers) ==
  LET g(id) == getVal(currentAnswers, id)
      ieValue == 30 - g(3) - g(7) - g(11) + g(15) - g(19) + g(23) + g(27) - g(31)
      snValue == 12 + g(4) + g(8) + g(12) + g(16) + g(20) - g(24) - g(28) + g(32)
      ftValue == 30 - g(2) + g(6) + g(10) - g(14) - g(18) + g(22) - g(26) - g(30)
      jpValue == 18 + g(1) + g(5) - g(9) + g(13) - g(17) + g(21) - g(25) + g(29)
      ei == IF ieValue > 24 THEN "E" ELSE "I"
      sn == IF snValue > 24 THEN "N" ELSE "S"
      ft == IF ftValue > 24 THEN "T" ELSE "F"
      jp == IF jpValue > 24 THEN "P" ELSE "J"
  IN [EI |-> ieValue, SN |-> snValue, FT |-> ftValue, JP |-> jpValue,
      type |-> <<ei, sn, ft, jp>>]

(***************************************************************************)
(* Flow Controller                                                         *)
(***************************************************************************)
Timer(kind, left, step, ans) ==
  [kind |-> kind, left |-> left, step |-> step, ans |-> ans]

RemoveAt(s, i) == SubSeq(s, 1, i - 1) \o SubSeq(s, i + 1, Len(s))

\* The question shown by the quiz view and the step passed to QuizContent.
displayStep == IF currentStep < NumQuestions - 1 THEN currentStep ELSE NumQuestions - 1

\* QuizContent: `disabled` of the five scale buttons.
OptionDisabled == isAnimating \/ isPulsing

PrevDisabled_NoPulseCheck == displayStep = 0 \/ isAnimating

\* QuizContent: `disabled` of the back arrow.
PrevDisabled == displayStep = 0 \/ isAnimating \/ isPulsing

\* QuizContent: `disabled` of the forward arrow.
NextDisabled ==
  \/ QuestionId(displayStep) \notin DOMAIN answers
  \/ isSending \/ isAnimating \/ isPulsing

\* Magnitudes the respondent picks on the question at position `step`.
Choices(step) == IF step >= NumQuestions - NumFree THEN Magnitudes ELSE {3}

\* An input that changes nothing: a disabled button, an early return of the
\* handler, or a TypeError thrown while reading QUESTIONS[QUESTIONS.length].id.
NoOp(e) ==
  /\ ev' = e
  /\ UNCHANGED <<view, currentStep, isAnimating, isPulsing, isShattering, isSending,
                 answers, result, cachedResult, registration, cachedUser, authError, timers, saves,
                 commits, resultSets>>

FlowInit ==
  /\ view = "welcome"
  /\ currentStep = 0
  /\ isAnimating = FALSE
  /\ isPulsing = FALSE
  /\ isShattering = FALSE
  /\ isSending = FALSE
  /\ answers = EmptyAnswers
  /\ result = NoResult
  /\ cachedResult = NoResult
  /\ registration = NoProfile
  /\ cachedUser = NoProfile
  /\ authError = ""
  /\ timers = <<>>
  /\ saves = <<>>
  /\ ev = "init"
  /\ commits = 0
  /\ resultSets = 0
  /\ resetTimer = ResetDelay

ScoreIdle ==
  /\ sAnswers = EmptyAnswers
  /\ sResult = NoResult

CodecIdle ==
  /\ cText = <<>>
  /\ cRating = "none"
  /\ cStored = <<>>
  /\ cDecoded = [text |-> <<>>, rating |-> "none"]
  /\ cPhase = "idle"

\* chatInstance.current before createPsychologistChat (null); a context is
\* held as a sequence of one record
NoContext == <<>>

\* message.id of a message that was not read back from the store
NoId == 0
NoCall == [message |-> [id |-> NoId, role |-> "", text |-> <<>>, rating |-> "none"],
           rating |-> "none", stage |-> "", recordId |-> NoId, newContent |-> <<>>]

ChatIdle ==
  /\ userPhone = <<>>
  /\ rows = <<>>
  /\ chatMessages = <<>>
  /\ sendPhase = "closed"
  /\ stream = <<>>
  /\ sentText = <<>>
  /\ calls = <<>>
  /\ chatEv = [op |-> "closed", index |-> 0, call |-> NoCall]
  /\ inputs = 0
  /\ chatInstance = NoContext
  /\ sentAt = 0

PhoneIdle ==
  /\ pBody = <<>>
  /\ pEntries = <<>>

SessionIdle ==
  /\ loginCalls = <<>>
  /\ retake = FALSE

RegisterIdle ==
  /\ confirmPassword = <<>>
  /\ profiles = {}
  /\ registerCalls = <<>>
  /\ regEv = [op |-> "idle"]
  /\ regInputs = 0

Init == FlowInit /\ ScoreIdle /\ CodecIdle /\ ChatIdle /\ PhoneIdle /\ RegisterIdle /\ SessionIdle

\* welcome -> auth_choice -> login | register -> interests -> tutorial
ReachTutorial ==
  /\ view = "welcome"
  /\ view' = "tutorial"
  /\ registration' = Profile
  /\ cachedUser' = Profile
  /\ ev' = "auth"
  /\ UNCHANGED <<currentStep, isAnimating, isPulsing, isShattering, isSending,
                 answers, result, cachedResult, authError, timers, saves,
                 commits, resultSets, resetTimer, nonFlowVars>>

\* tutorial: the start button
StartQuiz ==
  /\ view = "tutorial"
  /\ view' = "quiz"
  /\ ev' = "start"
  /\ UNCHANGED <<currentStep, isAnimating, isPulsing, isShattering, isSending,
                 answers, result, cachedResult, registration, cachedUser, authError, timers, saves,
                 commits, resultSets, resetTimer, nonFlowVars>>

\* the timer callback captures the answers of the render, not updatedAnswers
handleOptionSelect_StaleClosure(val, e) ==
  IF isAnimating \/ isPulsing \/ isShattering THEN NoOp("select_noop")
  ELSE IF currentStep >= NumQuestions THEN NoOp("select_noop")
  ELSE LET id == QuestionId(currentStep)
           updatedAnswers == [i \in DOMAIN answers \cup {id} |->
                                IF i = id THEN val ELSE answers[i]]
       IN /\ answers' = updatedAnswers
          /\ isPulsing' = TRUE
          /\ timers' = Append(timers, Timer("pulse", PulseDelay, currentStep, answers))
          /\ ev' = e
          /\ UNCHANGED <<view, currentStep, isAnimating, isShattering, isSending,
                         result, cachedResult, registration, cachedUser, authError, saves, commits, resultSets>>

\* the answer is recorded under the position of the question, not its id
handleOptionSelect_IndexAsId(val, e) ==
  IF isAnimating \/ isPulsing \/ isShattering THEN NoOp("select_noop")
  ELSE IF currentStep >= NumQuestions THEN NoOp("select_noop")
  ELSE LET id == currentStep
           updatedAnswers == [i \in DOMAIN answers \cup {id} |->
                                IF i = id THEN val ELSE answers[i]]
       IN /\ answers' = updatedAnswers
          /\ isPulsing' = TRUE
          /\ timers' = Append(timers, Timer("pulse", PulseDelay, currentStep, updatedAnswers))
          /\ ev' = e
          /\ UNCHANGED <<view, currentStep, isAnimating, isShattering, isSending,
                         result, cachedResult, registration, cachedUser, authError, saves, commits, resultSets>>

handleOptionSelect(val, e) ==
  IF isAnimating \/ isPulsing \/ isShattering THEN NoOp("select_noop")
  ELSE IF currentStep >= NumQuestions THEN NoOp("select_noop")
  ELSE LET id == QuestionId(currentStep)
           updatedAnswers == [i \in DOMAIN answers \cup {id} |->
                                IF i = id THEN val ELSE answers[i]]
       IN /\ answers' = updatedAnswers
          /\ isPulsing' = TRUE
          /\ timers' = Append(timers, Timer("pulse", PulseDelay, currentStep, updatedAnswers))
          /\ ev' = e
          /\ UNCHANGED <<view, currentStep, isAnimating, isShattering, isSending,
                         result, cachedResult, registration, cachedUser, authError, saves, commits, resultSets>>

\* on the last question the commit is scheduled at once, without confirming
handleNextStep_DirectCommit ==
  IF isAnimating \/ isSending \/ isShattering THEN NoOp("next_noop")
  ELSE IF currentStep >= NumQuestions THEN NoOp("next_noop")
  ELSE IF QuestionId(currentStep) \notin DOMAIN answers THEN NoOp("next_noop")
  ELSE IF currentStep < NumQuestions - 1
       THEN /\ isAnimating' = TRUE
            /\ timers' = Append(timers, Timer("forward", AnimDelay, currentStep, EmptyAnswers))
            /\ ev' = "next"
            /\ UNCHANGED <<view, currentStep, isPulsing, isShattering, isSending,
                           answers, result, cachedResult, registration, cachedUser,
                           authError, saves, commits, resultSets>>
       ELSE /\ currentStep' = NumQuestions
            /\ timers' = Append(timers, Timer("saturate", SaturateDelay, currentStep, answers))
            /\ ev' = "next"
            /\ UNCHANGED <<view, isAnimating, isPulsing, isShattering, isSending,
                           answers, result, cachedResult, registration, cachedUser,
                           authError, saves, commits, resultSets>>

handleNextStep ==
  IF isAnimating \/ isSending \/ isShattering THEN NoOp("next_noop")
  ELSE IF currentStep >= NumQuestions THEN NoOp("next_noop")
  ELSE IF QuestionId(currentStep) \notin DOMAIN answers THEN NoOp("next_noop")
  ELSE IF currentStep < NumQuestions - 1
       THEN /\ isAnimating' = TRUE
            /\ timers' = Append(timers, Timer("forward", AnimDelay, currentStep, EmptyAnswers))
            /\ ev' = "next"
            /\ UNCHANGED <<view, currentStep, isPulsing, isShattering, isSending,
                           answers, result, cachedResult, registration, cachedUser, authError, saves,
                           commits, resultSets>>
       ELSE handleOptionSelect(answers[QuestionId(currentStep)], "next")

handlePrevStep_NoShatterCheck ==
  IF isAnimating \/ currentStep = 0 THEN NoOp("prev_noop")
  ELSE /\ isAnimating' = TRUE
       /\ timers' = Append(timers, Timer("backward", AnimDelay, currentStep, EmptyAnswers))
       /\ ev' = "prev"
       /\ UNCHANGED <<view, currentStep, isPulsing, isShattering, isSending,
                      answers, result, cachedResult, registration, cachedUser,
                      authError, saves, commits, resultSets>>

handlePrevStep ==
  IF isAnimating \/ currentStep = 0 \/ isShattering THEN NoOp("prev_noop")
  ELSE /\ isAnimating' = TRUE
       /\ timers' = Append(timers, Timer("backward", AnimDelay, currentStep, EmptyAnswers))
       /\ ev' = "prev"
       /\ UNCHANGED <<view, currentStep, isPulsing, isShattering, isSending,
                      answers, result, cachedResult, registration, cachedUser, authError, saves,
                      commits, resultSets>>

\* The respondent presses one of the scale circles.
ClickOption(val) ==
  /\ view = "quiz"
  /\ val \in Choices(displayStep)
  /\ IF OptionDisabled THEN NoOp("select_noop") ELSE handleOptionSelect(val, "select")
  /\ UNCHANGED <<resetTimer, nonFlowVars>>

\* The respondent presses the forward arrow.
ClickNext ==
  /\ view = "quiz"
  /\ IF NextDisabled THEN NoOp("next_noop") ELSE handleNextStep
  /\ UNCHANGED <<resetTimer, nonFlowVars>>

\* The respondent presses the back arrow.
ClickPrev ==
  /\ view = "quiz"
  /\ IF PrevDisabled THEN NoOp("prev_noop") ELSE handlePrevStep
  /\ UNCHANGED <<resetTimer, nonFlowVars>>

\* The callback at position i is the next one to run: it is due, and no
\* callback scheduled before it is.
IsDue(i) ==
  /\ timers[i].left = 0
  /\ \A j \in 1 .. i - 1 : timers[j].left > 0

\* 25 ms pass; a callback that is due runs before time moves on.
Tick ==
  /\ timers # <<>>
  /\ \A i \in 1 .. Len(timers) : timers[i].left > 0
  /\ timers' = [i \in 1 .. Len(timers) |-> [timers[i] EXCEPT !.left = @ - 1]]
  /\ ev' = "tick"
  /\ UNCHANGED <<view, currentStep, isAnimating, isPulsing, isShattering, isSending,
                 answers, result, cachedResult, registration, cachedUser, authError, saves, commits,
                 resultSets, resetTimer, nonFlowVars>>

IsLastQuestion_OffByOne(step) == step >= NumQuestions

\* currentStep >= QUESTIONS.length - 1, on the step captured by the callback
IsLastQuestion(step) == step >= NumQuestions - 1

\* setTimeout(..., 400) of handleOptionSelect
PulseTimeout(i) ==
  LET t == timers[i] IN
  /\ t.kind = "pulse" /\ IsDue(i)
  /\ IF IsLastQuestion(t.step)
     THEN /\ currentStep' = NumQuestions
          /\ isPulsing' = FALSE
          /\ timers' = Append(RemoveAt(timers, i),
                              Timer("saturate", SaturateDelay, t.step, t.ans))
          /\ UNCHANGED isAnimating
     ELSE /\ isAnimating' = TRUE
          /\ timers' = Append(RemoveAt(timers, i),
                              Timer("forward", AnimDelay, t.step, EmptyAnswers))
          /\ UNCHANGED <<currentStep, isPulsing>>
  /\ ev' = "pulse_done"
  /\ UNCHANGED <<view, isShattering, isSending, answers, result, cachedResult, registration, cachedUser,
                 authError, saves, commits, resultSets, resetTimer, nonFlowVars>>

AnimTimeout_BeforeDelayEnds(i) ==
  LET t == timers[i] IN
  /\ t.kind \in {"forward", "backward"}
  /\ currentStep' = IF t.kind = "forward" THEN currentStep + 1 ELSE currentStep - 1
  /\ isAnimating' = FALSE
  /\ isPulsing' = FALSE
  /\ timers' = RemoveAt(timers, i)
  /\ ev' = "anim_done"
  /\ UNCHANGED <<view, isShattering, isSending, answers, result, cachedResult,
                 registration, cachedUser, authError, saves, commits, resultSets,
                 resetTimer, nonFlowVars>>

AnimTimeout_KeepsPulsing(i) ==
  LET t == timers[i] IN
  /\ t.kind \in {"forward", "backward"} /\ IsDue(i)
  /\ currentStep' = IF t.kind = "forward" THEN currentStep + 1 ELSE currentStep - 1
  /\ isAnimating' = FALSE
  /\ timers' = RemoveAt(timers, i)
  /\ ev' = "anim_done"
  /\ UNCHANGED <<view, isPulsing, isShattering, isSending, answers, result,
                 cachedResult, registration, cachedUser, authError, saves, commits,
                 resultSets, resetTimer, nonFlowVars>>

\* setTimeout(..., 300) of handleOptionSelect, handleNextStep and handlePrevStep
AnimTimeout(i) ==
  LET t == timers[i] IN
  /\ t.kind \in {"forward", "backward"} /\ IsDue(i)
  /\ currentStep' = IF t.kind = "forward" THEN currentStep + 1 ELSE currentStep - 1
  /\ isAnimating' = FALSE
  /\ isPulsing' = FALSE
  /\ timers' = RemoveAt(timers, i)
  /\ ev' = "anim_done"
  /\ UNCHANGED <<view, isShattering, isSending, answers, result, cachedResult, registration, cachedUser,
                 authError, saves, commits, resultSets, resetTimer, nonFlowVars>>

SaturateTimeout_CacheAfterUpsert(i) ==
  LET t == timers[i]
      finalResult == calculateResults(t.ans)
  IN /\ t.kind = "saturate" /\ IsDue(i)
     /\ isShattering' = TRUE
     /\ isSending' = TRUE
     /\ authError' = ""
     /\ result' = finalResult
     /\ saves' = Append(saves, finalResult)
     /\ timers' = RemoveAt(timers, i)
     /\ commits' = commits + 1
     /\ ev' = "shatter_start"
     /\ UNCHANGED <<view, currentStep, isAnimating, isPulsing, answers, cachedResult,
                    cachedUser, registration, resultSets, resetTimer, nonFlowVars>>

\* setTimeout(..., 600) of the last question: setIsShattering(true), then
\* finishQuiz up to its `await saveResultToSpreadsheet(...)`.
SaturateTimeout(i) ==
  LET t == timers[i]
      finalResult == calculateResults(t.ans)
  IN /\ t.kind = "saturate" /\ IsDue(i)
     /\ isShattering' = TRUE
     /\ isSending' = TRUE
     /\ authError' = ""
     /\ result' = finalResult
     /\ cachedResult' = finalResult
     /\ cachedUser' = registration
     /\ saves' = Append(saves, finalResult)
     /\ timers' = RemoveAt(timers, i)
     /\ commits' = commits + 1
     /\ ev' = "shatter_start"
     /\ UNCHANGED <<view, currentStep, isAnimating, isPulsing, answers,
                    registration, resultSets, resetTimer, nonFlowVars>>

\* Return value of saveResultToSpreadsheet for each way the upsert can end.
SaveOutcomes == {"ok", "conflict409", "httpError", "throws", "noConfig"}
saveResultToSpreadsheet(outcome) == outcome \in {"ok", "conflict409"}

SaveReturns_FailureAborts(i, outcome) ==
  /\ i \in 1 .. Len(saves)
  /\ outcome \in SaveOutcomes
  /\ saves' = RemoveAt(saves, i)
  /\ isSending' = FALSE
  /\ authError' = IF saveResultToSpreadsheet(outcome) THEN authError ELSE "save_failed"
  /\ timers' = IF saveResultToSpreadsheet(outcome)
               THEN Append(timers, Timer("shatter", ShatterDelay, 0, EmptyAnswers))
               ELSE timers
  /\ ev' = IF saveResultToSpreadsheet(outcome) THEN "saved" ELSE "save_failed"
  /\ resetTimer' = ResetDelay
  /\ UNCHANGED <<view, currentStep, isAnimating, isPulsing, isShattering, answers,
                 result, cachedResult, registration, cachedUser, commits, resultSets,
                 nonFlowVars>>

\* finishQuiz after the await, then the rest of the 600 ms callback.
SaveReturns(i, outcome) ==
  /\ i \in 1 .. Len(saves)
  /\ outcome \in SaveOutcomes
  /\ saves' = RemoveAt(saves, i)
  /\ isSending' = FALSE
  /\ authError' = IF saveResultToSpreadsheet(outcome) THEN authError ELSE "save_failed"
  /\ timers' = Append(timers, Timer("shatter", ShatterDelay, 0, EmptyAnswers))
  /\ ev' = IF saveResultToSpreadsheet(outcome) THEN "saved" ELSE "save_failed"
  /\ resetTimer' = ResetDelay
  /\ UNCHANGED <<view, currentStep, isAnimating, isPulsing, isShattering, answers,
                 result, cachedResult, registration, cachedUser, commits, resultSets,
                 nonFlowVars>>

\* setTimeout(..., 1200) after finishQuiz
ShatterTimeout(i) ==
  LET t == timers[i] IN
  /\ t.kind = "shatter" /\ IsDue(i)
  /\ isShattering' = FALSE
  /\ view' = "result"
  /\ timers' = RemoveAt(timers, i)
  /\ resultSets' = resultSets + 1
  /\ ev' = "result"
  /\ UNCHANGED <<currentStep, isAnimating, isPulsing, isSending, answers, result,
                 cachedResult, registration, cachedUser, authError, saves, commits, resetTimer, nonFlowVars>>

TimerFires ==
  \E i \in 1 .. Len(timers) :
    PulseTimeout(i) \/ AnimTimeout(i) \/ SaturateTimeout(i) \/ ShatterTimeout(i)

SaveCompletes == \E i \in 1 .. Len(saves) : \E o \in SaveOutcomes : SaveReturns(i, o)

Next ==
  \/ ReachTutorial
  \/ StartQuiz
  \/ \E val \in Magnitudes : ClickOption(val)
  \/ ClickNext
  \/ ClickPrev
  \/ Tick
  \/ \E i \in 1 .. Len(timers) : PulseTimeout(i)
  \/ \E i \in 1 .. Len(timers) : AnimTimeout(i)
  \/ \E i \in 1 .. Len(timers) : SaturateTimeout(i)
  \/ \E i \in 1 .. Len(timers) : ShatterTimeout(i)
  \/ \E i \in 1 .. Len(saves) : \E o \in SaveOutcomes : SaveReturns(i, o)

Spec == Init /\ [][Next]_vars

TypeOK ==
  /\ view \in {"welcome", "tutorial", "quiz", "result"}
  /\ currentStep \in 0 .. NumQuestions
  /\ isAnimating \in BOOLEAN /\ isPulsing \in BOOLEAN
  /\ isShattering \in BOOLEAN /\ isSending \in BOOLEAN
  /\ DOMAIN answers \subseteq 1 .. NumQuestions
  /\ \A id \in DOMAIN answers : answers[id] \in Magnitudes
  /\ Len(timers) <= 3
  /\ Len(saves) <= 2
  /\ commits \in 0 .. 2
  /\ resultSets \in 0 .. 2

\* A respondent who navigates freely but only ever presses the middle circle:
\* the magnitudes picked have no part in the sequencing of the guards.
NextNeutral ==
  \/ ReachTutorial
  \/ StartQuiz
  \/ ClickOption(3)
  \/ ClickNext
  \/ ClickPrev
  \/ Tick
  \/ \E i \in 1 .. Len(timers) : PulseTimeout(i)
  \/ \E i \in 1 .. Len(timers) : AnimTimeout(i)
  \/ \E i \in 1 .. Len(timers) : SaturateTimeout(i)
  \/ \E i \in 1 .. Len(timers) : ShatterTimeout(i)
  \/ \E i \in 1 .. Len(saves) : \E o \in SaveOutcomes : SaveReturns(i, o)

\* The timers run, and a pending upsert ends (with any outcome).
FairSpec ==
  /\ Init
  /\ [][NextNeutral]_vars
  /\ WF_vars(Tick)
  /\ WF_vars(TimerFires)
  /\ WF_vars(SaveCompletes)

\* A respondent who only ever presses the middle circle (3).
NextThrees ==
  \/ ReachTutorial
  \/ StartQuiz
  \/ ClickOption(3)
  \/ Tick
  \/ \E i \in 1 .. Len(timers) : PulseTimeout(i)
  \/ \E i \in 1 .. Len(timers) : AnimTimeout(i)
  \/ \E i \in 1 .. Len(timers) : SaturateTimeout(i)
  \/ \E i \in 1 .. Len(timers) : ShatterTimeout(i)
  \/ \E i \in 1 .. Len(saves) : \E o \in SaveOutcomes : SaveReturns(i, o)

\* ... and who answers every question put to them.
AnswersThree == ClickOption(3) /\ isPulsing'

SpecThrees ==
  /\ Init
  /\ [][NextThrees]_vars
  /\ WF_vars(ReachTutorial)
  /\ WF_vars(StartQuiz)
  /\ WF_vars(AnswersThree)
  /\ WF_vars(Tick)
  /\ WF_vars(TimerFires)
  /\ WF_vars(SaveCompletes)

InputEvents == {"select", "next", "prev", "select_noop", "next_noop", "prev_noop"}
AllThrees == [id \in 1 .. NumQuestions |-> 3]
LastId == QuestionId(NumQuestions - 1)

(***************************************************************************)
(* Flow Controller properties                                              *)
(***************************************************************************)

\* C1: whenever the view becomes result, the committed result is
\* calculateResults of the answer set holding, for every item, the value of
\* the last accepted selection.
C1_CommittedResultScoresLastAccepted ==
  [][view # "result" /\ view' = "result" => result' = calculateResults(answers')]_vars

\* C2: while isPulsing or isAnimating is set, pressing a scale circle, the
\* forward arrow or the back arrow changes neither the answers nor the step
\* index and schedules nothing; an input that is accepted sets one of the two
\* guards at once, so a burst of inputs yields at most one transition.
C2_GuardedInputsAreNoOps ==
  [][ /\ (isPulsing \/ isAnimating) /\ ev' \in InputEvents
         => answers' = answers /\ currentStep' = currentStep /\ timers' = timers
      /\ ev' \in InputEvents /\ timers' # timers
         => (isPulsing' \/ isAnimating') /\ Len(timers') = Len(timers) + 1
    ]_vars

C1_Witness ==
  /\ view = "result"
  /\ ev = "result"
  /\ commits = 2
  /\ resultSets = 1
  /\ answers[LastId] # 3
  /\ result = calculateResults(answers)

C2_Witness ==
  /\ isPulsing
  /\ ev = "prev_noop"
  /\ currentStep > 0

\* C3: answering the 32 items in order with magnitude 3 ends in the result
\* view, entered exactly once, with isShattering cleared and the result of
\* the empty answer set committed.
C3_AllThreesReachResultOnce ==
  <>[](/\ view = "result"
       /\ ~isShattering
       /\ resultSets = 1
       /\ result = calculateResults(EmptyAnswers))

C3_Witness ==
  /\ view = "result"
  /\ answers = AllThrees
  /\ resultSets = 1
  /\ ~isShattering

\* C4: after the last answer the phases come in the order confirming, step
\* index N, finalizing with scoring, result view with finalizing cleared; and
\* from the step index reaching N until the result view it stays N.
C4_PhasesInOrderStepPinned ==
  [][ /\ currentStep # NumQuestions /\ currentStep' = NumQuestions
         => isPulsing /\ ~isPulsing'
      /\ ~isShattering /\ isShattering'
         => currentStep = NumQuestions /\ ~isPulsing /\ result' = calculateResults(answers)
      /\ view # "result" /\ view' = "result"
         => isShattering /\ ~isShattering' /\ currentStep = NumQuestions
      /\ currentStep = NumQuestions /\ view # "result"
         => currentStep' = NumQuestions
    ]_vars

\* C5: the commit sequence is started at most once, and only by the selection
\* that answers the final item for the first time.
C5_CommitOnceFromFirstAnswer ==
  [][ /\ commits' <= 1
      /\ ev' \in {"select", "next"} /\ currentStep = NumQuestions - 1 /\ answers' # answers
         => LastId \notin DOMAIN answers
      /\ ev' \in {"select", "next"} /\ currentStep = NumQuestions - 1 /\ isPulsing'
         => LastId \notin DOMAIN answers
    ]_vars

\* C6: every start of the commit sequence leads to the result view with
\* isShattering cleared, and no guard or the sending flag stays set forever,
\* whatever the outcome of the remote upsert.
C6_CommitAlwaysCompletes ==
  /\ isShattering ~> (view = "result" /\ ~isShattering)
  /\ isSending ~> ~isSending
  /\ isPulsing ~> ~isPulsing
  /\ isAnimating ~> ~isAnimating

C6_Witness ==
  /\ view = "result"
  /\ commits >= 1
  /\ ~isShattering /\ ~isSending /\ ~isPulsing /\ ~isAnimating
  /\ authError = "save_failed"
  /\ timers = <<>> /\ saves = <<>>

Pending(kinds) == { i \in 1 .. Len(timers) : timers[i].kind \in kinds }
DueNow(kind) == \E i \in 1 .. Len(timers) : timers[i].kind = kind /\ timers[i].left = 0
Scheduled(kind, delay) ==
  /\ Len(timers') >= 1
  /\ timers'[Len(timers')].kind = kind
  /\ timers'[Len(timers')].left = delay

\* C17: an answer accepted on a question i before the last records the
\* magnitude and sets isPulsing with the step unchanged; when the 400 ms have
\* run, isAnimating is set with the step still unchanged; when the 300 ms
\* have run, the step becomes i + 1 and both guards are cleared.  The step
\* goes up by one only there, one pending callback at a time.
C17_AnswerAdvancesOnceAfterDelays ==
  [][ /\ ev' = "select" /\ currentStep < NumQuestions - 1
         => /\ answers'[QuestionId(currentStep)] \in Magnitudes
            /\ \A id \in DOMAIN answers \ {QuestionId(currentStep)} : answers'[id] = answers[id]
            /\ isPulsing' /\ ~isAnimating'
            /\ currentStep' = currentStep
            /\ Scheduled("pulse", PulseDelay)
            /\ timers = <<>>
      /\ ev' = "pulse_done" /\ currentStep < NumQuestions - 1
         => /\ DueNow("pulse")
            /\ isPulsing' /\ isAnimating'
            /\ currentStep' = currentStep
            /\ Scheduled("forward", AnimDelay)
            /\ Len(timers') = 1
      /\ currentStep' = currentStep + 1 /\ currentStep' < NumQuestions
         => /\ ev' = "anim_done"
            /\ DueNow("forward")
            /\ isAnimating
            /\ ~isAnimating' /\ ~isPulsing'
            /\ Pending({"pulse", "forward"}) = {1}
            /\ timers' = <<>>
      /\ currentStep' > currentStep
         => currentStep' = currentStep + 1 \/ currentStep' = NumQuestions
    ]_vars

\* the first answer has been recorded and the step has gone from 0 to 1
C17_Witness ==
  /\ ev = "anim_done"
  /\ currentStep = 1
  /\ DOMAIN answers = {QuestionId(0)}
  /\ ~isPulsing /\ ~isAnimating
  /\ timers = <<>>

\* C18 as stated: at most one of isPulsing, isAnimating and isShattering is
\* set in every reachable state.
C18_AtMostOneGuard ==
  /\ ~(isPulsing /\ isAnimating)
  /\ ~(isPulsing /\ isShattering)
  /\ ~(isAnimating /\ isShattering)

\* C18 amended: the three flags are never all set.  isPulsing is set only
\* while a callback of the answer is pending, and together with isAnimating
\* only during the 300 ms of the advance that follows an accepted answer.
\* isShattering is set together with isAnimating only while a back transition
\* is pending, and together with isPulsing only while an answer to the last
\* question is being confirmed again.
C18_NeverAllThreeGuards ==
  /\ ~(isPulsing /\ isAnimating /\ isShattering)
  /\ isPulsing => Pending({"pulse", "forward"}) # {}
  /\ isPulsing /\ isAnimating
       => Pending({"forward"}) # {} /\ currentStep < NumQuestions - 1
  /\ isShattering /\ isAnimating => Pending({"backward"}) # {}
  /\ isShattering /\ isPulsing
       => Pending({"pulse"}) # {} /\ currentStep = NumQuestions - 1

\* the advance after the first answer: both flags are set
C18_Witness ==
  /\ isPulsing /\ isAnimating /\ ~isShattering
  /\ ev = "pulse_done"
  /\ currentStep = 0
  /\ Pending({"forward"}) = {1}

\* C19: a back press is accepted only at a step above 0 with none of the
\* three guards set; it sets isAnimating and leaves the step as it is; the
\* step goes down only when the 300 ms of a back press have run, and then by
\* exactly one; the step is always within 0 .. N.
C19_BackOnlyUnguardedOneStep ==
  [][ /\ ev' = "prev"
         => /\ currentStep > 0
            /\ ~isPulsing /\ ~isAnimating /\ ~isShattering
            /\ isAnimating'
            /\ currentStep' = currentStep
            /\ Scheduled("backward", AnimDelay)
      /\ currentStep' < currentStep
         => /\ currentStep' = currentStep - 1
            /\ ev' = "anim_done"
            /\ DueNow("backward")
            /\ Cardinality(Pending({"backward"})) = 1
            /\ ~isAnimating'
      /\ currentStep' \in 0 .. NumQuestions
    ]_vars

\* the respondent went back from the second question to the first
C19_Witness ==
  /\ ev = "anim_done"
  /\ currentStep = 0
  /\ QuestionId(0) \in DOMAIN answers
  /\ ~isAnimating
  /\ timers = <<>>

\* what an accepted input on the last question does, with the answer set it
\* leaves behind
StartsConfirming ==
  /\ isPulsing' /\ ~isPulsing
  /\ timers' = Append(timers, Timer("pulse", PulseDelay, NumQuestions - 1, answers'))
  /\ UNCHANGED <<view, currentStep, isAnimating, isShattering, isSending, result,
                 cachedResult, commits, resultSets>>

\* C20: on the last question an accepted press of the forward arrow does what
\* selecting the recorded answer does: it starts confirming with the same
\* answer set in the callback, from where the phases and the scoring are
\* those of a selection; the 600 ms callback is scheduled only by the end of
\* confirming, the result is scored only in the 600 ms callback and the
\* result view is entered only by the 1200 ms callback.
C20_NextOnLastIsSelect ==
  [][ /\ ev' = "next" /\ currentStep = NumQuestions - 1
         => answers' = answers /\ StartsConfirming
      /\ ev' = "select" /\ currentStep = NumQuestions - 1
         => StartsConfirming
      /\ Cardinality(Pending({"saturate"})') > Cardinality(Pending({"saturate"}))
         => ev' = "pulse_done" /\ DueNow("pulse") /\ isPulsing /\ ~isPulsing'
      /\ result' # result
         => /\ ev' = "shatter_start" /\ DueNow("saturate")
            /\ \E i \in Pending({"saturate"}) :
                 timers[i].left = 0 /\ result' = calculateResults(timers[i].ans)
      /\ view # "result" /\ view' = "result"
         => ev' = "result" /\ DueNow("shatter") /\ isShattering
    ]_vars

\* the forward arrow was accepted on the last question
C20_Witness ==
  /\ ev = "next"
  /\ currentStep = NumQuestions - 1
  /\ isPulsing
  /\ \E i \in Pending({"pulse"}) : timers[i].ans = answers /\ timers[i].left = PulseDelay

\* C16: when the remote upsert is attempted the local cache already holds the
\* computed result and the profile; the return of the upsert, failed or not,
\* leaves the cached result and profile as they are; a failed upsert sets the
\* error banner, clears the sending flag and lets the sequence go on to the
\* result view.
C16_CacheBeforeUpsertNoRollback ==
  [][ /\ Len(saves') > Len(saves)
         => /\ cachedResult' = saves'[Len(saves')]
            /\ cachedResult' = result' /\ cachedResult' # NoResult
            /\ cachedUser' = registration /\ cachedUser' # NoProfile
      /\ ev' \in {"saved", "save_failed"}
         => /\ cachedResult' = cachedResult /\ cachedResult' # NoResult
            /\ cachedUser' = cachedUser /\ cachedUser' # NoProfile
            /\ result' = result
      /\ ev' = "save_failed"
         => /\ authError' = "save_failed"
            /\ ~isSending'
            /\ timers' = Append(timers, Timer("shatter", ShatterDelay, 0, EmptyAnswers))
    ]_vars

C16_Witness ==
  /\ ev = "save_failed"
  /\ authError = "save_failed"
  /\ cachedResult = result /\ cachedResult # NoResult
  /\ cachedUser = Profile
  /\ \E i \in 1 .. Len(timers) : timers[i].kind = "shatter"

Answered(a, step) ==
  \A i \in 0 .. step - 1 :
    QuestionId(i) \in DOMAIN a /\ a[QuestionId(i)] \in Magnitudes

\* C34: every question before the step index has an answer in 1..5; the
\* answer set handed to the commit sequence holds all 32 items, and so does
\* the answer set of every committed result: no item is scored by default.
C34_EveryPassedItemAnswered ==
  /\ Answered(answers, currentStep)
  /\ \A i \in 1 .. Len(timers) :
       /\ timers[i].kind = "pulse" => Answered(timers[i].ans, timers[i].step + 1)
       /\ timers[i].kind = "saturate" => Answered(timers[i].ans, NumQuestions)
  /\ commits > 0 =>
       /\ Answered(answers, NumQuestions)
       /\ DOMAIN answers = 1 .. NumQuestions

\* the commit sequence has run on a full answer set whose last item is not 3
C34_Witness ==
  /\ commits = 1
  /\ ev = "shatter_start"
  /\ currentStep = NumQuestions
  /\ DOMAIN answers = 1 .. NumQuestions
  /\ answers[LastId] = 5
  /\ result = calculateResults(answers)

(***************************************************************************)
(* Scoring Engine under test                                               *)
(***************************************************************************)
Absent == 0

\* `a` with item `id` set to `v`, or removed when v = Absent
Override(a, id, v) ==
  IF v = Absent
  THEN [i \in DOMAIN a \ {id} |-> a[i]]
  ELSE [i \in DOMAIN a \cup {id} |-> IF i = id THEN v ELSE a[i]]

Deviate(S) ==
  S \cup { Override(a, id, v) : a \in S, id \in 1 .. NumQuestions,
                                 v \in Magnitudes \cup {Absent} }

RECURSIVE DeviateTimes(_, _)
DeviateTimes(S, k) == IF k = 0 THEN S ELSE DeviateTimes(Deviate(S), k - 1)

\* The empty set and the five uniform full sets, each changed on at most
\* MaxDev items.
ScoreInputs ==
  DeviateTimes({EmptyAnswers} \cup { [id \in 1 .. NumQuestions |-> m] : m \in Magnitudes },
               MaxDev)

ScoreInit ==
  /\ sAnswers \in ScoreInputs
  /\ sResult = NoResult

ComputeType ==
  /\ sResult = NoResult
  /\ sResult' = calculateResults(sAnswers)
  /\ UNCHANGED <<sAnswers, nonScoreVars>>

InitScore == FlowInit /\ CodecIdle /\ ChatIdle /\ PhoneIdle /\ RegisterIdle /\ SessionIdle /\ ScoreInit

SpecScore == InitScore /\ [][ComputeType]_vars

Scored == sResult # NoResult

\* C7: for every AnswerSet, partial and empty ones included, calculateResults
\* returns four integers and a code of exactly four letters taken position by
\* position from {E,I}, {S,N}, {F,T}, {J,P}; calling it again on the same
\* AnswerSet returns the same value.
C7_CodeIsFourLettersFromPairs ==
  Scored =>
    /\ sResult.EI \in Int /\ sResult.SN \in Int
    /\ sResult.FT \in Int /\ sResult.JP \in Int
    /\ Len(sResult.type) = 4
    /\ sResult.type[1] \in {"E", "I"}
    /\ sResult.type[2] \in {"S", "N"}
    /\ sResult.type[3] \in {"F", "T"}
    /\ sResult.type[4] \in {"J", "P"}
    /\ calculateResults(sAnswers) = sResult

C7_Witness ==
  /\ Scored
  /\ DOMAIN sAnswers # {} /\ DOMAIN sAnswers # 1 .. NumQuestions
  /\ sResult.type = <<"I", "S", "T", "J">>

\* The axis formulas as the specification states them: a base offset, the
\* items added and the items subtracted, an absent item counting as 3.
RECURSIVE SumOver(_, _)
SumOver(a, ids) ==
  IF ids = {} THEN 0
  ELSE LET id == CHOOSE x \in ids : TRUE
       IN (IF id \in DOMAIN a THEN a[id] ELSE 3) + SumOver(a, ids \ {id})

AxisRaw(a, base, plus, minus) == base + SumOver(a, plus) - SumOver(a, minus)
EIraw(a) == AxisRaw(a, 30, {15, 23, 27}, {3, 7, 11, 19, 31})
SNraw(a) == AxisRaw(a, 12, {4, 8, 12, 16, 20, 32}, {24, 28})
FTraw(a) == AxisRaw(a, 30, {6, 10, 22}, {2, 14, 18, 26, 30})
JPraw(a) == AxisRaw(a, 18, {1, 5, 13, 21, 29}, {9, 17, 25})

\* C8: each axis integer is the stated signed sum plus base offset with
\* absent items read as 3, and an axis selects E, N, T, P exactly when its
\* integer is strictly greater than 24 (24 itself selects I, S, F, J).
C8_AxesAreStatedSumsThreshold24 ==
  Scored =>
    /\ sResult.EI = EIraw(sAnswers)
    /\ sResult.SN = SNraw(sAnswers)
    /\ sResult.FT = FTraw(sAnswers)
    /\ sResult.JP = JPraw(sAnswers)
    /\ sResult.type[1] = "E" <=> sResult.EI > 24
    /\ sResult.type[2] = "N" <=> sResult.SN > 24
    /\ sResult.type[3] = "T" <=> sResult.FT > 24
    /\ sResult.type[4] = "P" <=> sResult.JP > 24
    /\ sResult.type[1] = "I" <=> sResult.EI <= 24
    /\ sResult.type[2] = "S" <=> sResult.SN <= 24
    /\ sResult.type[3] = "F" <=> sResult.FT <= 24
    /\ sResult.type[4] = "J" <=> sResult.JP <= 24

\* one axis just above the threshold, the others exactly on it, item 28 set
C8_Witness ==
  /\ Scored
  /\ 28 \in DOMAIN sAnswers /\ sAnswers[28] = 2
  /\ DOMAIN sAnswers = {28}
  /\ sResult.SN = 25 /\ sResult.EI = 24
  /\ sResult.type = <<"I", "N", "F", "J">>

Fixture == [EI |-> 24, SN |-> 24, FT |-> 24, JP |-> 24, type |-> <<"I", "S", "F", "J">>]

\* C9: the empty AnswerSet and the set answering all 32 items with 3 score
\* alike, to one fixed result: every axis 24 and the code ISFJ.
C9_EmptyScoresAsAllThreesISFJ ==
  Scored /\ sAnswers \in {EmptyAnswers, AllThrees} => sResult = Fixture

C9_Witness ==
  /\ Scored
  /\ sAnswers = EmptyAnswers
  /\ sResult = Fixture

(***************************************************************************)
(* Message Tag Codec                                                       *)
(* A string is a sequence of one-character strings.                        *)
(***************************************************************************)
TagLike == <<"[", "T", "A", "G", ":", "l", "i", "k", "e", "]">>
TagDislike == <<"[", "T", "A", "G", ":", "d", "i", "s", "l", "i", "k", "e", "]">>
TagNeutral == <<"[", "T", "A", "G", ":", "n", "e", "u", "t", "r", "a", "l", "]">>
LegacyLiked == <<" ", "#", "l", "i", "k", "e", "d">>
LegacyDisliked == <<" ", "#", "d", "i", "s", "l", "i", "k", "e", "d">>
LegacyNeutral == <<" ", "#", "n", "e", "u", "t", "r", "a", "l">>
Whitespace == {" ", "\n", "\t"}

\* pat occurs in s starting at position i
OccursAt(s, i, pat) ==
  /\ i >= 1
  /\ i + Len(pat) - 1 <= Len(s)
  /\ SubSeq(s, i, i + Len(pat) - 1) = pat

\* String.prototype.includes
Includes(s, pat) == \E i \in 1 .. Len(s) : OccursAt(s, i, pat)

\* String.prototype.trimEnd
RECURSIVE trimEnd(_)
trimEnd(s) ==
  IF s # <<>> /\ s[Len(s)] \in Whitespace THEN trimEnd(SubSeq(s, 1, Len(s) - 1)) ELSE s

\* Positions where /\[TAG:(like|dislike|neutral)\]\s*$/ matches: one of the
\* three tags starts there and only whitespace follows it up to the end.
TagMatchAt(s, i) ==
  \E tag \in {TagLike, TagDislike, TagNeutral} :
    /\ OccursAt(s, i, tag)
    /\ \A j \in i + Len(tag) .. Len(s) : s[j] \in Whitespace

TagMatches(s) == { i \in 1 .. Len(s) : TagMatchAt(s, i) }

\* the leftmost match, as String.prototype.match and replace take it
TagMatchStart(s) == CHOOSE i \in TagMatches(s) : \A j \in TagMatches(s) : i <= j

\* capture group 1 of the match
TagMatchName(s) ==
  LET i == TagMatchStart(s) IN
  IF OccursAt(s, i, TagLike) THEN "like"
  ELSE IF OccursAt(s, i, TagDislike) THEN "dislike"
  ELSE "neutral"

\* s.replace(/\[TAG:(like|dislike|neutral)\]\s*$/, '')
replaceTrailingTag(s) ==
  IF TagMatches(s) = {} THEN s ELSE SubSeq(s, 1, TagMatchStart(s) - 1)

\* s.replace(/ #liked| #disliked| #neutral/g, ''): one scan from the left,
\* matches do not overlap and the text joined by a removal is not rescanned.
RECURSIVE replaceLegacyFrom(_, _)
replaceLegacyFrom(s, i) ==
  IF i > Len(s) THEN <<>>
  ELSE IF OccursAt(s, i, LegacyLiked) THEN replaceLegacyFrom(s, i + Len(LegacyLiked))
  ELSE IF OccursAt(s, i, LegacyDisliked) THEN replaceLegacyFrom(s, i + Len(LegacyDisliked))
  ELSE IF OccursAt(s, i, LegacyNeutral) THEN replaceLegacyFrom(s, i + Len(LegacyNeutral))
  ELSE <<s[i]>> \o replaceLegacyFrom(s, i + 1)

replaceLegacy(s) == replaceLegacyFrom(s, 1)

\* getChatHistory: the mapping of one row's content to text and rating
\* ("none" stands for an undefined rating)
decodeRow(content) ==
  IF TagMatches(content) # {}
  THEN [text |-> trimEnd(replaceTrailingTag(content)),
        rating |-> IF TagMatchName(content) = "like" THEN "like"
                   ELSE IF TagMatchName(content) = "dislike" THEN "dislike"
                   ELSE "none"]
  ELSE [text |-> trimEnd(replaceLegacy(content)),
        rating |-> IF Includes(content, LegacyLiked) THEN "like"
                   ELSE IF Includes(content, LegacyDisliked) THEN "dislike"
                   ELSE "none"]

\* rateMessage step 2: cleanContent
cleanContent(originalContent) ==
  trimEnd(replaceLegacy(replaceTrailingTag(originalContent)))

newSuffix_DislikeAsLike(rating) ==
  IF rating = "dislike" THEN TagLike
  ELSE IF rating = "like" THEN TagLike
  ELSE TagNeutral

\* rateMessage step 3: newSuffix ("none" stands for a null rating)
newSuffix(rating) ==
  IF rating = "dislike" THEN TagDislike
  ELSE IF rating = "like" THEN TagLike
  ELSE TagNeutral

\* rateMessage steps 2 and 3: newContent
newContent(originalContent, rating) == cleanContent(originalContent) \o newSuffix(rating)

finalContent_Untagged(role, content) == content

\* saveChatMessage: finalContent
finalContent(role, content) ==
  IF role = "model" THEN content \o TagNeutral ELSE content

(***************************************************************************)
(* Tag Codec under test                                                    *)
(***************************************************************************)
\* Texts are built from at most MaxPieces of these pieces.
MaxPieces == 3
Pieces ==
  { <<"a">>, <<" ">>, <<"#", "l", "i", "k", "e", "d">>, <<"[", "T", "A", "G", ":">>,
    TagLike, TagDislike, TagNeutral, LegacyLiked, LegacyDisliked, LegacyNeutral }

RECURSIVE TextsUpTo(_)
TextsUpTo(k) ==
  IF k = 0 THEN {<<>>}
  ELSE LET shorter == TextsUpTo(k - 1)
       IN shorter \cup { t \o piece : t \in shorter, piece \in Pieces }

Ratings == {"like", "dislike", "none"}

CodecInit ==
  /\ cText \in TextsUpTo(MaxPieces)
  /\ cRating = "none"
  /\ cStored = <<>>
  /\ cDecoded = [text |-> <<>>, rating |-> "none"]
  /\ cPhase = "text"

\* rateMessage writes the message with a rating
EncodeRated(rating) ==
  /\ cPhase = "text"
  /\ rating \in Ratings
  /\ cStored' = newContent(cText, rating)
  /\ cRating' = rating
  /\ cPhase' = "rated"
  /\ UNCHANGED <<cText, cDecoded, nonCodecVars>>

\* saveChatMessage writes an assistant message
EncodeSaved ==
  /\ cPhase = "text"
  /\ cStored' = finalContent("model", cText)
  /\ cRating' = "none"
  /\ cPhase' = "stored"
  /\ UNCHANGED <<cText, cDecoded, nonCodecVars>>

\* getChatHistory reads the row back
Decode ==
  /\ cPhase \in {"stored", "rated"}
  /\ cDecoded' = decodeRow(cStored)
  /\ cPhase' = "decoded"
  /\ UNCHANGED <<cText, cRating, cStored, nonCodecVars>>

\* getChatHistory reads a row whose content is the text as it stands (a row
\* of the release that marked ratings with " #liked", or any other)
DecodeStored ==
  /\ cPhase = "text"
  /\ cStored' = cText
  /\ cDecoded' = decodeRow(cText)
  /\ cPhase' = "read"
  /\ UNCHANGED <<cText, cRating, nonCodecVars>>

NextCodec ==
  \/ \E rating \in Ratings : EncodeRated(rating)
  \/ EncodeSaved
  \/ Decode
  \/ DecodeStored

InitCodec == FlowInit /\ ScoreIdle /\ ChatIdle /\ PhoneIdle /\ RegisterIdle /\ SessionIdle /\ CodecInit

SpecCodec == InitCodec /\ [][NextCodec]_vars

AnyTag == {TagLike, TagDislike, TagNeutral}
AnyLegacy == {LegacyLiked, LegacyDisliked, LegacyNeutral}
TagFree(t) == \A pat \in AnyTag \cup AnyLegacy : ~Includes(t, pat)
NoTrailingWhitespace(t) == t = <<>> \/ t[Len(t)] \notin Whitespace
EndsWith(s, pat) == Len(s) >= Len(pat) /\ OccursAt(s, Len(s) - Len(pat) + 1, pat)

\* C10 as stated: for any tag-free text t and rating r, decoding the encoded
\* form of (t, r) yields text t and rating r (none decoding to no rating).
C10_RoundTripAnyTagFree ==
  cPhase = "decoded" /\ TagFree(cText)
    => cDecoded = [text |-> cText, rating |-> cRating]

\* C10 amended: the round trip holds for every tag-free text that does not
\* end in whitespace.
C10_RoundTripTrimmedTagFree ==
  cPhase = "decoded" /\ TagFree(cText) /\ NoTrailingWhitespace(cText)
    => cDecoded = [text |-> cText, rating |-> cRating]

C10_Witness ==
  /\ cPhase = "decoded"
  /\ TagFree(cText) /\ NoTrailingWhitespace(cText)
  /\ Len(cText) >= 2
  /\ cRating = "dislike"
  /\ cDecoded = [text |-> cText, rating |-> "dislike"]

Carries(s, pats) == \E pat \in pats : Includes(s, pat)

\* C23: a stored string that carries a legacy marker (and no trailing bracket
\* tag) decodes to the rating of the marker and to a text without markers,
\* " #liked" at the end giving like; and a stored string that went through
\* one encode cycle of rateMessage never carries both a legacy marker and a
\* bracket tag.
C23_LegacyDecodedAndNeverMixed ==
  /\ cPhase = "read" /\ Carries(cStored, AnyLegacy) /\ TagMatches(cStored) = {} =>
       /\ ~Carries(cDecoded.text, AnyLegacy)
       /\ EndsWith(cStored, LegacyLiked) => cDecoded.rating = "like"
       /\ Includes(cStored, LegacyLiked) /\ ~Includes(cStored, LegacyDisliked) =>
            cDecoded.rating = "like"
       /\ Includes(cStored, LegacyDisliked) /\ ~Includes(cStored, LegacyLiked) =>
            cDecoded.rating = "dislike"
       /\ ~Includes(cStored, LegacyDisliked) /\ ~Includes(cStored, LegacyLiked) =>
            cDecoded.rating = "none"
  /\ cPhase = "rated" =>
       ~(Carries(cStored, AnyLegacy) /\ Carries(cStored, AnyTag))

\* C37: for every stored content string, the stripping that the fallback
\* lookup of rateMessage applies to a row (cleanDb) gives the text that
\* getChatHistory decodes the row to.
C37_LookupStrippingIsDecoding ==
  cPhase = "read" => cleanContent(cStored) = cDecoded.text

(***************************************************************************)
(* Phone Canonicalizer                                                     *)
(***************************************************************************)
Digits == {"0", "1", "2", "3", "4", "5", "6", "7", "8", "9"}
Sentinel == <<"0", "0", "0", "0", "0", "0", "0", "0", "0", "0", "0">>
KeyLength == 11
NationalLength == 10

\* phone.replace(/\D/g, '')
digitsOf(phone) == SelectSeq(phone, LAMBDA ch : ch \in Digits)

\* cleaned.slice(-11)
lastEleven(cleaned) == SubSeq(cleaned, Len(cleaned) - KeyLength + 1, Len(cleaned))

normalizePhoneNumber_KeepsEight(phone) ==
  LET cleaned == digitsOf(phone)
      rewritten == IF Len(cleaned) = NationalLength THEN <<"7">> \o cleaned
                   ELSE cleaned
  IN IF phone = <<>> THEN Sentinel
     ELSE IF Len(cleaned) = 0 THEN Sentinel
     ELSE IF Len(rewritten) > KeyLength THEN lastEleven(rewritten) ELSE rewritten

normalizePhoneNumber(phone) ==
  LET cleaned == digitsOf(phone)
      rewritten == IF cleaned # <<>> /\ Head(cleaned) = "8"
                   THEN <<"7">> \o Tail(cleaned)
                   ELSE IF Len(cleaned) = NationalLength THEN <<"7">> \o cleaned
                   ELSE cleaned
  IN IF phone = <<>> THEN Sentinel
     ELSE IF Len(cleaned) = 0 THEN Sentinel
     ELSE IF Len(rewritten) > KeyLength THEN lastEleven(rewritten) ELSE rewritten

(***************************************************************************)
(* Phone Canonicalizer under test                                          *)
(***************************************************************************)
\* The first NumVaried digits of a national number range over VariedDigits,
\* the others are taken from NationalTail.
NumVaried == 1
VariedDigits == {"0", "8", "9"}
NationalTail == <<"9", "1", "5", "1", "2", "3", "4", "5", "6", "7">>

RECURSIVE DigitStrings(_)
DigitStrings(n) ==
  IF n = 0 THEN {<<>>}
  ELSE { <<d>> \o s : d \in VariedDigits, s \in DigitStrings(n - 1) }

Nationals ==
  { v \o SubSeq(NationalTail, NumVaried + 1, NationalLength) : v \in DigitStrings(NumVaried) }

\* what the user means to type after the prefix: a national number, or the
\* first digits of one, or one with a digit too many
Bodies ==
  { SubSeq(d, 1, n) : d \in Nationals, n \in 0 .. NationalLength }
    \cup { d \o <<"0">> : d \in Nationals }

\* prefixes, and the ways of setting a number out
Leads == { <<>>, <<"8">>, <<"7">>, <<"+", "7">>, <<"8", "7">>, <<"+", "7", "8">> }
Styles == {"plain", "spaced", "punctuated"}

\* what is typed before the i-th digit
Separator(style, i) ==
  IF style = "spaced" /\ i \in {2, 5, 8, 10} THEN <<" ">>
  ELSE IF style = "punctuated" /\ i = 2 THEN <<" ", "(">>
  ELSE IF style = "punctuated" /\ i = 5 THEN <<")", " ">>
  ELSE IF style = "punctuated" /\ i \in {8, 10} THEN <<"-">>
  ELSE <<>>

RECURSIVE SetOut(_, _, _)
SetOut(digits, style, i) ==
  IF i > Len(digits) THEN <<>>
  ELSE Separator(style, i) \o <<digits[i]>> \o SetOut(digits, style, i + 1)

\* "8 915 123 45 67", "+7 (915) 123-45-67", "89151234567"
Typed(lead, body, style) ==
  (IF lead # <<>> /\ Head(lead) = "+" THEN <<"+">> ELSE <<>>)
    \o SetOut(digitsOf(lead) \o body, style, 1)

MaxEntries == 2

PhoneInit ==
  /\ pBody \in Bodies
  /\ pEntries = <<>>

\* the user types the number in one of its forms (at registration, at login)
\* and the form is canonicalized into the key of the records
Canonicalize(lead, style) ==
  /\ Len(pEntries) < MaxEntries
  /\ LET raw == Typed(lead, pBody, style)
     IN pEntries' = Append(pEntries, [lead |-> lead, raw |-> raw,
                                      key |-> normalizePhoneNumber(raw),
                                      used |-> <<>>])
  /\ UNCHANGED <<pBody, nonPhoneVars>>

\* a store operation is handed the cached key and canonicalizes it again:
\* `const cleanPhone = normalizePhoneNumber(phone)` of saveChatMessage,
\* getChatHistory, rateMessage, and of handleLogin on the phone of the row
Recanonicalize(i) ==
  /\ i \in 1 .. Len(pEntries)
  /\ pEntries[i].used = <<>>
  /\ pEntries' = [pEntries EXCEPT ![i].used = normalizePhoneNumber(pEntries[i].key)]
  /\ UNCHANGED <<pBody, nonPhoneVars>>

NextPhone ==
  \/ \E lead \in Leads, style \in Styles : Canonicalize(lead, style)
  \/ \E i \in 1 .. Len(pEntries) : Recanonicalize(i)

InitPhone == FlowInit /\ ScoreIdle /\ CodecIdle /\ ChatIdle /\ RegisterIdle /\ SessionIdle /\ PhoneInit

SpecPhone == InitPhone /\ [][NextPhone]_vars

Entries == { pEntries[i] : i \in 1 .. Len(pEntries) }

\* C21: for every 10-digit national number d, however it is set out, the
\* forms "8" d and "+7" d canonicalize to the same 11-digit key "7" d.
C21_EightAndPlusSevenSameKey ==
  Len(pBody) = NationalLength =>
    \A e1, e2 \in Entries :
      e1.lead = <<"8">> /\ e2.lead = <<"+", "7">> =>
        /\ e1.key = e2.key
        /\ e1.key = <<"7">> \o pBody
        /\ Len(e1.key) = KeyLength

C21_Witness ==
  /\ Len(pBody) = NationalLength
  /\ Len(pEntries) = 2
  /\ pEntries[1].lead = <<"8">> /\ pEntries[2].lead = <<"+", "7">>
  /\ pEntries[1].raw # pEntries[2].raw
  /\ Includes(pEntries[1].raw, <<" ">>) /\ Includes(pEntries[2].raw, <<"(">>)
  /\ pEntries[1].key = pEntries[2].key

\* C22: for every raw input, a leading 8 of the digit string is rewritten
\* to 7, and whenever the digit string has exactly 10 digits the key is that
\* digit string prefixed with 7 (11 digits).
C22_EightRewrittenTenPrefixed ==
  \A e \in Entries :
    LET cleaned == digitsOf(e.raw)
        rewritten == <<"7">> \o Tail(cleaned)
    IN /\ cleaned # <<>> /\ Head(cleaned) = "8" =>
            e.key = IF Len(rewritten) > KeyLength THEN lastEleven(rewritten)
                    ELSE rewritten
       /\ Len(cleaned) = NationalLength =>
            e.key = <<"7">> \o cleaned /\ Len(e.key) = KeyLength

\* the store operations that were handed a cached key
Reused == { e \in Entries : e.used # <<>> }

\* C32: canonicalizing a canonical phone again gives the same key, for every
\* raw input: the key a store operation addresses is the key of the profile.
C32_CanonicalizeIdempotent ==
  \A e \in Reused : e.used = e.key

(***************************************************************************)
(* Chat session: handleSendMessage, handleRateMessage (part_000) and the   *)
(* chat_history table behind saveChatMessage, getChatHistory, rateMessage  *)
(* (dataService.ts).  Every fetch is answered at an instant of its own, so *)
(* requests in flight at the same time are served in any order.            *)
(***************************************************************************)
\* the key of the account, and the key of another account in the same table
MyPhone == <<"7", "9", "0", "0", "1", "1", "1", "2", "2", "3", "3">>
OtherPhone == <<"7", "9", "0", "0", "4", "4", "4", "5", "5", "6", "6">>
\* localStorage['user_phone'] is normalizePhoneNumber of the phone of the
\* profile: the key of the account, or the sentinel when the phone held no
\* digit
StoredPhones == {MyPhone, Sentinel}
QueryLimit == 5               \* rateMessage: limit=5 of the fallback query
HistoryLimit == 3000          \* getChatHistory: limit=3000

\* Bounds of the chat session
\* the session takes at most MaxInputs inputs: messages sent, chunks
\* streamed back and rating clicks
MaxInputs == 4

TextA == <<"a">>
TextB == <<"b">>
\* the catch block of handleSendMessage: the message of the error thrown, and
\* the apology chosen from it
ErrorMsg == <<"s", "o", "r", "r", "y">>
QuotaMsg == <<"t", "o", "m", "o", "r", "r", "o", "w">>
LimitMsg == <<"d", "a", "i", "l", "y">>
NetworkError == <<"f", "e", "t", "c", "h">>
Errors == { <<"H", "T", "T", "P", " ", "4", "2", "9">>,
            <<"Q", "u", "o", "t", "a">>,
            <<"u", "s", "a", "g", "e", " ", "l", "i", "m", "i", "t">>,
            NetworkError }
toLowerCase(str) ==
  [i \in 1 .. Len(str) |->
     IF str[i] = "H" THEN "h" ELSE IF str[i] = "T" THEN "t"
     ELSE IF str[i] = "P" THEN "p" ELSE IF str[i] = "Q" THEN "q" ELSE str[i]]
errorMsg(error) ==
  LET errString == toLowerCase(error)
  IN IF \/ Includes(errString, <<"4", "2", "9">>)
        \/ Includes(errString, <<"q", "u", "o", "t", "a">>)
        \/ Includes(errString, <<"e", "x", "h", "a", "u", "s", "t", "e", "d">>)
     THEN QuotaMsg
     ELSE IF \/ Includes(errString, <<"l", "i", "m", "i", "t">>)
             \/ Includes(errString, <<"u", "s", "a", "g", "e">>)
     THEN LimitMsg
     ELSE ErrorMsg
\* what the user types, already trimmed and not empty
UserTexts == {TextA}
\* what one chunk of the streamed reply can hold
Chunks ==
  { TextA,
    TextA \o LegacyLiked,
    TextA \o TagLike,
    <<"[", "T", "A", "G", ":">> \o TagLike \o <<"l", "i", "k", "e", "]">> }

Row(id, phone, role, content) ==
  [id |-> id, phone |-> phone, role |-> role, content |-> content]
Message(id, role, text, rating) ==
  [id |-> id, role |-> role, text |-> text, rating |-> rating]

RECURSIVE Flatten(_)
Flatten(ss) == IF ss = <<>> THEN <<>> ELSE Head(ss) \o Flatten(Tail(ss))

\* handleSendMessage: fullText, the concatenation of the chunks received
fullText == Flatten(stream)

\* s.replace(/\[TAG:(like|dislike|neutral)\]/g, ''): one scan from the left,
\* the text joined by a removal is not rescanned.
RECURSIVE replaceTagsFrom(_, _)
replaceTagsFrom(s, i) ==
  IF i > Len(s) THEN <<>>
  ELSE IF OccursAt(s, i, TagLike) THEN replaceTagsFrom(s, i + Len(TagLike))
  ELSE IF OccursAt(s, i, TagDislike) THEN replaceTagsFrom(s, i + Len(TagDislike))
  ELSE IF OccursAt(s, i, TagNeutral) THEN replaceTagsFrom(s, i + Len(TagNeutral))
  ELSE <<s[i]>> \o replaceTagsFrom(s, i + 1)

replaceTags(s) == replaceTagsFrom(s, 1)

RECURSIVE trimStart(_)
trimStart(s) == IF s # <<>> /\ s[1] \in Whitespace THEN trimStart(Tail(s)) ELSE s

\* String.prototype.trim
trim(s) == trimStart(trimEnd(s))

\* handleSendMessage: displaySafeText and cleanFullText
displaySafeText == replaceTags(fullText)
cleanFullText == trim(replaceTags(fullText))

Reverse(s) == [i \in 1 .. Len(s) |-> s[Len(s) + 1 - i]]
FirstN(s, n) == SubSeq(s, 1, IF Len(s) < n THEN Len(s) ELSE n)

\* getChatHistory: phone=eq, order=created_at.asc, limit=3000, each row decoded
getChatHistory(phone) ==
  LET cleanPhone == normalizePhoneNumber(phone)
      mine == FirstN(SelectSeq(rows, LAMBDA r : r.phone = cleanPhone), HistoryLimit)
  IN IF cleanPhone = Sentinel THEN <<>>
     ELSE [i \in 1 .. Len(mine) |->
             Message(mine[i].id, mine[i].role, decodeRow(mine[i].content).text,
                     decodeRow(mine[i].content).rating)]

\* Stores a session can start from: rows are written by saveChatMessage and
\* rateMessage, or by the release that marked ratings with " #liked".
HistoryOfSix ==
  <<Row(1, MyPhone, "model", TextA \o TagNeutral)>>
    \o [i \in 1 .. QueryLimit |-> Row(i + 1, MyPhone, "model", TextB \o TagNeutral)]
HistoryMixed ==
  << Row(1, MyPhone, "model", TextA \o LegacyLiked),
     Row(2, MyPhone, "model", finalContent("model", TextA \o LegacyLiked)),
     Row(3, MyPhone, "user", TextA),
     Row(4, OtherPhone, "model", TextA \o TagNeutral) >>
InitialStores == {<<>>, HistoryOfSix, HistoryMixed}
\* the table as a session without a phone finds it: rows of an account, and
\* a row that another client left under the sentinel
HistoryAnonymous ==
  << Row(1, OtherPhone, "model", TextA \o TagNeutral),
     Row(2, Sentinel, "model", TextA \o TagNeutral) >>

\* The page was loaded with a result and a profile in the cache: the startup
\* effect restores both and shows the result view.
ResultShown ==
  /\ view = "result"
  /\ currentStep = 0
  /\ isAnimating = FALSE
  /\ isPulsing = FALSE
  /\ isShattering = FALSE
  /\ isSending = FALSE
  /\ answers = EmptyAnswers
  /\ result = Fixture
  /\ cachedResult = Fixture
  /\ registration = Profile
  /\ cachedUser = Profile
  /\ authError = ""
  /\ timers = <<>>
  /\ saves = <<>>
  /\ ev = "init"
  /\ commits = 0
  /\ resultSets = 0
  /\ resetTimer = ResetDelay

\* createPsychologistChat: the context is seeded with the type, the profile
\* and the decoded history
createPsychologistChat(scored, user, history) ==
  <<[type |-> scored.type, user |-> user, history |-> history]>>

\* The chat is opened for the first time: initChat awaits getChatHistory.
ChatInit ==
  /\ \/ userPhone = MyPhone /\ rows \in InitialStores
     \/ userPhone = Sentinel /\ rows = HistoryAnonymous
  /\ chatMessages = <<>>
  /\ sendPhase = "loading"
  /\ stream = <<>>
  /\ sentText = <<>>
  /\ calls = <<>>
  /\ chatEv = [op |-> "open", index |-> 0, call |-> NoCall]
  /\ inputs = 0
  /\ chatInstance = NoContext
  /\ sentAt = 0

Event(op, call) == [op |-> op, index |-> 0, call |-> call]

\* initChat: getChatHistory returns (the rows, or [] on any failure)
HistoryArrives(ok) ==
  /\ sendPhase = "loading"
  /\ chatMessages' = IF ok THEN getChatHistory(userPhone) ELSE <<>>
  /\ sendPhase' = "idle"
  /\ chatInstance' = createPsychologistChat(result, registration, chatMessages')
  /\ chatEv' = Event(IF ok THEN "history" ELSE "history_failed", NoCall)
  /\ UNCHANGED <<rows, stream, sentText, calls, inputs, userPhone, sentAt, nonChatVars>>

\* initChat: getChatHistory returns and createPsychologistChat throws; the
\* catch block logs the error, the history stays on the screen
ContextFails(ok) ==
  /\ sendPhase = "loading"
  /\ chatMessages' = IF ok THEN getChatHistory(userPhone) ELSE <<>>
  /\ sendPhase' = "idle"
  /\ chatEv' = Event("context_failed", NoCall)
  /\ UNCHANGED <<rows, stream, sentText, calls, inputs, userPhone, chatInstance, sentAt,
                 nonChatVars>>

\* handleSendMessage up to `await chatInstance.current.sendMessageStream`
handleSendMessage(text) ==
  /\ sendPhase = "idle"
  /\ inputs < MaxInputs
  /\ inputs' = inputs + 1
  /\ stream' = <<>>
  /\ LET sent == Append(chatMessages, Message(NoId, "user", text, "none"))
     IN IF chatInstance = NoContext /\ result = NoResult
        THEN \* TypeError: chatInstance.current is null
             /\ chatMessages' = Append(sent, Message(NoId, "model", ErrorMsg, "none"))
             /\ sendPhase' = "idle"
             /\ sentText' = <<>>
             /\ sentAt' = 0
             /\ chatEv' = Event("stream_error", NoCall)
        ELSE /\ chatMessages' = sent
             /\ sendPhase' = IF chatInstance = NoContext THEN "lazy" ELSE "streaming"
             /\ sentText' = text
             /\ sentAt' = Len(sent)
             /\ chatEv' = Event("send", NoCall)
  /\ UNCHANGED <<rows, calls, userPhone, chatInstance, nonChatVars>>

\* handleSendMessage with no context: getChatHistory returns, the messages
\* are replaced by the history and createPsychologistChat is called; when it
\* throws, the catch block appends the apology
LazyHistoryArrives(ok, created) ==
  /\ sendPhase = "lazy"
  /\ LET history == IF ok THEN getChatHistory(userPhone) ELSE <<>>
     IN IF created
        THEN /\ chatMessages' = history
             /\ chatInstance' = createPsychologistChat(result, registration, history)
             /\ sendPhase' = "streaming"
             /\ chatEv' = Event("lazy_context", NoCall)
             /\ UNCHANGED <<sentText, sentAt>>
        ELSE /\ chatMessages' = Append(history, Message(NoId, "model", ErrorMsg, "none"))
             /\ sendPhase' = "idle"
             /\ sentText' = <<>>
             /\ sentAt' = 0
             /\ chatEv' = Event("stream_error", NoCall)
             /\ UNCHANGED chatInstance
  /\ UNCHANGED <<rows, stream, calls, inputs, userPhone, nonChatVars>>

StreamChunk_SavesEachChunk(chunk) ==
  /\ sendPhase = "streaming"
  /\ inputs < MaxInputs
  /\ stream' = Append(stream, chunk)
  /\ inputs' = inputs + 1
  /\ LET shown == Message(NoId, "model", replaceTags(Flatten(stream')), "none")
         n == Len(chatMessages)
     IN chatMessages' =
          IF n > 0 /\ chatMessages[n].role = "model"
          THEN [chatMessages EXCEPT ![n] = shown]
          ELSE Append(chatMessages, shown)
  /\ chatEv' = Event("chunk", NoCall)
  /\ rows' = Append(rows, Row(Len(rows) + 1, userPhone, "model",
                              finalContent("model", replaceTags(Flatten(stream')))))
  /\ UNCHANGED <<sendPhase, sentText, calls, userPhone, chatInstance, sentAt, nonChatVars>>

\* one iteration of `for await (const chunk of stream)`
StreamChunk(chunk) ==
  /\ sendPhase = "streaming"
  /\ inputs < MaxInputs
  /\ stream' = Append(stream, chunk)
  /\ inputs' = inputs + 1
  /\ LET shown == Message(NoId, "model", replaceTags(Flatten(stream')), "none")
         n == Len(chatMessages)
     IN chatMessages' =
          IF n > 0 /\ chatMessages[n].role = "model"
          THEN [chatMessages EXCEPT ![n] = shown]
          ELSE Append(chatMessages, shown)
  /\ chatEv' = Event("chunk", NoCall)
  /\ UNCHANGED <<rows, sendPhase, sentText, calls, userPhone, chatInstance, sentAt, nonChatVars>>

\* the stream ends: the last message takes cleanFullText
StreamEnd ==
  /\ sendPhase = "streaming"
  /\ LET n == Len(chatMessages)
     IN chatMessages' =
          IF n > 0 /\ chatMessages[n].role = "model"
          THEN [chatMessages EXCEPT ![n].text = cleanFullText]
          ELSE chatMessages
  /\ sendPhase' = "saveUser"
  /\ chatEv' = Event("stream_end", NoCall)
  /\ UNCHANGED <<rows, stream, sentText, calls, inputs, userPhone, chatInstance, sentAt, nonChatVars>>

StreamFails_StaysSending(error) ==
  /\ sendPhase = "streaming"
  /\ chatMessages' = Append(chatMessages, Message(NoId, "model", errorMsg(error), "none"))
  /\ sendPhase' = "failed"
  /\ stream' = <<>>
  /\ sentText' = <<>>
  /\ sentAt' = 0
  /\ chatEv' = Event("stream_error", NoCall)
  /\ UNCHANGED <<rows, calls, inputs, userPhone, chatInstance, nonChatVars>>

\* sendMessageStream or the stream throws: the catch block appends the
\* apology, the finally block clears isSending
StreamFails(error) ==
  /\ sendPhase = "streaming"
  /\ chatMessages' = Append(chatMessages, Message(NoId, "model", errorMsg(error), "none"))
  /\ sendPhase' = "idle"
  /\ stream' = <<>>
  /\ sentText' = <<>>
  /\ sentAt' = 0
  /\ chatEv' = Event("stream_error", NoCall)
  /\ UNCHANGED <<rows, calls, inputs, userPhone, chatInstance, nonChatVars>>

saveChatMessage_NoSentinelCheck(phone, role, content, ok) ==
  LET cleanPhone == normalizePhoneNumber(phone)
  IN rows' = IF ok
             THEN Append(rows, Row(Len(rows) + 1, cleanPhone, role,
                                   finalContent(role, content)))
             ELSE rows

\* saveChatMessage: the POST is served (ok) or lost (errors are swallowed)
saveChatMessage(phone, role, content, ok) ==
  LET cleanPhone == normalizePhoneNumber(phone)
  IN rows' = IF cleanPhone # Sentinel /\ ok
             THEN Append(rows, Row(Len(rows) + 1, cleanPhone, role,
                                   finalContent(role, content)))
             ELSE rows

\* `await saveChatMessage(storedPhone, 'user', text)`
SaveUserMessage(ok) ==
  /\ sendPhase = "saveUser"
  /\ saveChatMessage(userPhone, "user", sentText, ok)
  /\ sendPhase' = "saveModel"
  /\ chatEv' = Event("save_user", NoCall)
  /\ UNCHANGED <<chatMessages, stream, sentText, calls, inputs, userPhone, chatInstance, sentAt, nonChatVars>>

\* `await saveChatMessage(storedPhone, 'model', cleanFullText)`
SaveModelMessage(ok) ==
  /\ sendPhase = "saveModel"
  /\ saveChatMessage(userPhone, "model", cleanFullText, ok)
  /\ sendPhase' = "idle"
  /\ stream' = <<>>
  /\ sentText' = <<>>
  /\ sentAt' = 0
  /\ chatEv' = Event("save_model", NoCall)
  /\ UNCHANGED <<chatMessages, calls, inputs, userPhone, chatInstance, nonChatVars>>

\* The rating buttons are rendered under the assistant messages.
Rateable == { i \in 1 .. Len(chatMessages) : chatMessages[i].role = "model" }
RateTargets == { i \in Rateable : \A j \in Rateable : i >= j }

handleRateMessage_NoToggle(index, newRating) ==
  /\ index \in Rateable
  /\ inputs < MaxInputs
  /\ LET msg == chatMessages[index]
         finalRating == newRating
         call == [message |-> msg, rating |-> finalRating, stage |-> "lookup",
                  recordId |-> NoId, newContent |-> <<>>]
     IN /\ chatMessages' = [chatMessages EXCEPT ![index].rating = finalRating]
        /\ calls' = IF normalizePhoneNumber(userPhone) = Sentinel THEN calls
                     ELSE Append(calls, call)
        /\ chatEv' = [op |-> newRating, index |-> index, call |-> call]
  /\ inputs' = inputs + 1
  /\ UNCHANGED <<rows, sendPhase, stream, sentText, userPhone, chatInstance, sentAt, nonChatVars>>

\* rateMessage is handed the button that was pressed, not the toggled rating
handleRateMessage_SendsPressed(index, newRating) ==
  /\ index \in Rateable
  /\ inputs < MaxInputs
  /\ LET msg == chatMessages[index]
         finalRating == IF msg.rating = newRating THEN "none" ELSE newRating
         call == [message |-> msg, rating |-> newRating, stage |-> "lookup",
                  recordId |-> NoId, newContent |-> <<>>]
     IN /\ chatMessages' = [chatMessages EXCEPT ![index].rating = finalRating]
        /\ calls' = IF normalizePhoneNumber(userPhone) = Sentinel THEN calls
                     ELSE Append(calls, call)
        /\ chatEv' = [op |-> newRating, index |-> index, call |-> call]
  /\ inputs' = inputs + 1
  /\ UNCHANGED <<rows, sendPhase, stream, sentText, userPhone, chatInstance, sentAt, nonChatVars>>

\* handleRateMessage: the local toggle, and rateMessage up to its first await
handleRateMessage(index, newRating) ==
  /\ index \in Rateable
  /\ inputs < MaxInputs
  /\ LET msg == chatMessages[index]
         finalRating == IF msg.rating = newRating THEN "none" ELSE newRating
         call == [message |-> msg, rating |-> finalRating, stage |-> "lookup",
                  recordId |-> NoId, newContent |-> <<>>]
     IN /\ chatMessages' = [chatMessages EXCEPT ![index].rating = finalRating]
        /\ calls' = IF normalizePhoneNumber(userPhone) = Sentinel THEN calls
                     ELSE Append(calls, call)
        /\ chatEv' = [op |-> newRating, index |-> index, call |-> call]
  /\ inputs' = inputs + 1
  /\ UNCHANGED <<rows, sendPhase, stream, sentText, userPhone, chatInstance, sentAt, nonChatVars>>

\* The user clicks under the latest assistant message, once the previous
\* click has been served.
ClickRating(index, newRating) ==
  /\ index \in RateTargets
  /\ calls = <<>>
  /\ handleRateMessage(index, newRating)

\* the fallback query without its limit
recentRecords_NoLimit(phone, role) ==
  Reverse(SelectSeq(rows, LAMBDA r : r.phone = phone /\ r.role = role))

\* rateMessage fallback query: phone=eq, role=eq, order=created_at.desc, limit=5
recentRecords(phone, role) ==
  FirstN(Reverse(SelectSeq(rows, LAMBDA r : r.phone = phone /\ r.role = role)),
         QueryLimit)

Hits_AnyRecord(records, text) == 1 .. Len(records)

\* records.find(...): indexes of the records whose cleaned content is the text
Hits(records, text) ==
  { i \in 1 .. Len(records) : cleanContent(records[i].content) = text }
find(records, text) ==
  records[CHOOSE i \in Hits(records, text) : \A j \in Hits(records, text) : i <= j]

LookupReplies == {"ok", "httpError", "throws"}

\* rateMessage from its first await to the PATCH request: the lookup is
\* answered, recordId and originalContent are settled, newContent is built.
RateLookup(k, reply) ==
  /\ k \in 1 .. Len(calls)
  /\ calls[k].stage = "lookup"
  /\ LET c == calls[k]
         msg == c.message
         records == recentRecords(normalizePhoneNumber(userPhone), msg.role)
         matched == msg.id = NoId /\ reply = "ok" /\ Hits(records, msg.text) # {}
         byId == { i \in 1 .. Len(rows) : rows[i].id = msg.id }
         recordId == IF msg.id # NoId THEN msg.id
                     ELSE IF matched THEN find(records, msg.text).id
                     ELSE NoId
         originalContent ==
           IF msg.id # NoId
           THEN IF reply = "ok" /\ byId # {}
                THEN rows[CHOOSE i \in byId : TRUE].content
                ELSE msg.text
           ELSE IF matched THEN find(records, msg.text).content
           ELSE msg.text
         sent == [c EXCEPT !.stage = "patch", !.recordId = recordId,
                           !.newContent = newContent(originalContent, c.rating)]
     IN IF reply = "throws" \/ recordId = NoId
        THEN /\ calls' = RemoveAt(calls, k)
             /\ chatEv' = Event(IF reply = "throws" THEN "rate_error"
                                ELSE IF reply = "ok" THEN "rate_dropped"
                                ELSE "rate_unanswered", c)
        ELSE /\ calls' = [calls EXCEPT ![k] = sent]
             /\ chatEv' = Event(IF reply = "ok" THEN "lookup" ELSE "lookup_failed", sent)
  /\ UNCHANGED <<rows, chatMessages, sendPhase, stream, sentText, inputs, userPhone, chatInstance, sentAt, nonChatVars>>

\* the PATCH id=eq.recordId is served (ok) or fails
RatePatch(k, ok) ==
  /\ k \in 1 .. Len(calls)
  /\ calls[k].stage = "patch"
  /\ LET c == calls[k]
         hit == { i \in 1 .. Len(rows) : rows[i].id = c.recordId }
     IN /\ rows' = IF ok
                   THEN [i \in 1 .. Len(rows) |->
                           IF i \in hit THEN [rows[i] EXCEPT !.content = c.newContent]
                           ELSE rows[i]]
                   ELSE rows
        /\ chatEv' = Event(IF ok THEN "patch" ELSE "patch_error", c)
  /\ calls' = RemoveAt(calls, k)
  /\ UNCHANGED <<chatMessages, sendPhase, stream, sentText, inputs, userPhone, chatInstance, sentAt, nonChatVars>>

NextChat ==
  \/ \E ok \in BOOLEAN : HistoryArrives(ok)
  \/ \E text \in UserTexts : handleSendMessage(text)
  \/ \E chunk \in Chunks : StreamChunk(chunk)
  \/ StreamEnd
  \/ StreamFails(NetworkError)
  \/ \E ok \in BOOLEAN : SaveUserMessage(ok)
  \/ \E ok \in BOOLEAN : SaveModelMessage(ok)
  \/ \E index \in RateTargets, newRating \in {"like", "dislike"} :
       ClickRating(index, newRating)
  \/ \E k \in 1 .. Len(calls), reply \in LookupReplies : RateLookup(k, reply)
  \/ \E k \in 1 .. Len(calls), ok \in BOOLEAN : RatePatch(k, ok)

InitChat == ResultShown /\ ScoreIdle /\ CodecIdle /\ PhoneIdle /\ RegisterIdle /\ SessionIdle /\ ChatInit

SpecChat == InitChat /\ [][NextChat]_vars

\* The chat is opened on a table that holds a long log of the account.
\* The table holds the rows of another account, then the log of the account:
\* user and assistant messages in turn.
MaxShort == 12
MaxBeyond == 1
MaxOthers == 3
Store(others, own) ==
  [i \in 1 .. others + own |->
     IF i <= others THEN Row(i, OtherPhone, "model", TextB \o TagNeutral)
     ELSE IF (i - others) % 2 = 1 THEN Row(i, MyPhone, "user", TextA)
     ELSE Row(i, MyPhone, "model", TextB \o TagLike)]
LogLengths == (0 .. MaxShort) \cup (HistoryLimit - 1 .. HistoryLimit + MaxBeyond)

HistoryInit ==
  /\ userPhone = MyPhone
  /\ rows \in { Store(others, own) : others \in 0 .. MaxOthers, own \in LogLengths }
  /\ chatMessages = <<>>
  /\ sendPhase = "loading"
  /\ stream = <<>>
  /\ sentText = <<>>
  /\ calls = <<>>
  /\ chatEv = [op |-> "open", index |-> 0, call |-> NoCall]
  /\ inputs = 0
  /\ chatInstance = NoContext
  /\ sentAt = 0

NextHistory == \E ok \in BOOLEAN : HistoryArrives(ok)

InitHistory ==
  ResultShown /\ ScoreIdle /\ CodecIdle /\ PhoneIdle /\ RegisterIdle /\ SessionIdle /\ HistoryInit

SpecHistory == InitHistory /\ [][NextHistory]_vars

\* The sends of a session on their own, the chat service failing in each of
\* the ways the catch block tells apart.
NextSend ==
  \/ \E ok \in BOOLEAN : HistoryArrives(ok)
  \/ \E text \in UserTexts : handleSendMessage(text)
  \/ \E chunk \in Chunks : StreamChunk(chunk)
  \/ StreamEnd
  \/ \E error \in Errors : StreamFails(error)
  \/ \E ok \in BOOLEAN : SaveUserMessage(ok)
  \/ \E ok \in BOOLEAN : SaveModelMessage(ok)

SpecSend == InitChat /\ [][NextSend]_vars

\* The sends of a session in which createPsychologistChat may throw, so that
\* a send can find no context and create it on the way.
NextLazy ==
  \/ \E ok \in BOOLEAN : HistoryArrives(ok)
  \/ \E ok \in BOOLEAN : ContextFails(ok)
  \/ \E text \in UserTexts : handleSendMessage(text)
  \/ \E ok \in BOOLEAN, created \in BOOLEAN : LazyHistoryArrives(ok, created)
  \/ \E chunk \in Chunks : StreamChunk(chunk)
  \/ StreamEnd
  \/ StreamFails(NetworkError)
  \/ \E ok \in BOOLEAN : SaveUserMessage(ok)
  \/ \E ok \in BOOLEAN : SaveModelMessage(ok)

SpecLazy == InitChat /\ [][NextLazy]_vars

\* C35: an accepted send appends the user message; no later step of the send
\* changes or removes that message or one before it; and when the send is
\* over the user message is followed by exactly one assistant message.
C35_SendAppendsOneExchange ==
  [][/\ chatEv'.op = "send" =>
          chatMessages' = Append(chatMessages, Message(NoId, "user", sentText', "none"))
     /\ sentAt > 0 =>
          /\ Len(chatMessages') >= sentAt
          /\ SubSeq(chatMessages', 1, sentAt) = SubSeq(chatMessages, 1, sentAt)
     /\ sentAt > 0 /\ sentAt' = 0 =>
          /\ Len(chatMessages') = sentAt + 1
          /\ chatMessages'[sentAt + 1].role = "model"
    ]_vars

\* The user texts of a session on their own: every text is stored, the page
\* is loaded again and the chat is opened on the rows stored before.
\* what the user sends: text.trim(), not empty
SentTexts ==
  { TextA, TextA \o LegacyDisliked \o <<" ">> \o TextB, TextA \o TagLike }

UserLogInit ==
  /\ userPhone = MyPhone
  /\ rows = <<>>
  /\ chatMessages = <<>>
  /\ sendPhase = "loading"
  /\ stream = <<>>
  /\ sentText = <<>>
  /\ calls = <<>>
  /\ chatEv = [op |-> "open", index |-> 0, call |-> NoCall]
  /\ inputs = 0
  /\ chatInstance = NoContext
  /\ sentAt = 0

\* the page is loaded again (chatMessages is [] and chatInstance null in the
\* new App) and the chat is opened: initChat awaits getChatHistory
Reopen ==
  /\ sendPhase = "idle"
  /\ calls = <<>>
  /\ chatMessages' = <<>>
  /\ sendPhase' = "loading"
  /\ chatInstance' = NoContext
  /\ chatEv' = Event("open", NoCall)
  /\ UNCHANGED <<rows, stream, sentText, calls, inputs, userPhone, sentAt, nonChatVars>>

NextUserLog ==
  \/ \E ok \in BOOLEAN : HistoryArrives(ok)
  \/ \E text \in SentTexts : handleSendMessage(text)
  \/ StreamChunk(TextB)
  \/ StreamEnd
  \/ \E ok \in BOOLEAN : SaveUserMessage(ok)
  \/ \E ok \in BOOLEAN : SaveModelMessage(ok)
  \/ Reopen

InitUserLog ==
  ResultShown /\ ScoreIdle /\ CodecIdle /\ PhoneIdle /\ RegisterIdle /\ SessionIdle /\ UserLogInit

SpecUserLog == InitUserLog /\ [][NextUserLog]_vars

\* Rating clicks that do not wait for each other: the user clicks under the
\* latest assistant message while earlier calls are in flight, and the
\* requests of the calls are answered in any order.
MaxClicks == 2
ClickAgain(index, newRating) ==
  /\ index \in RateTargets
  /\ inputs < MaxClicks
  /\ handleRateMessage(index, newRating)

NextRace ==
  \/ \E ok \in BOOLEAN : HistoryArrives(ok)
  \/ \E index \in RateTargets, newRating \in {"like", "dislike"} :
       ClickAgain(index, newRating)
  \/ \E k \in 1 .. Len(calls) : RateLookup(k, "ok")
  \/ \E k \in 1 .. Len(calls) : RatePatch(k, TRUE)

SpecRace == InitChat /\ [][NextRace]_vars

\* A long conversation: the respondent has had up to MaxExchanges exchanges
\* with the assistant, every reply a text of its own.  Either they were all
\* made on this page (the messages have no id), or the page was loaded after
\* them and the chat opened (the messages carry the ids of their rows).
MaxExchanges == 6
Reply(k) == [j \in 1 .. k |-> "b"]
Conversation(n) ==
  [i \in 1 .. 2 * n |->
     IF i % 2 = 1 THEN Row(i, MyPhone, "user", TextA)
     ELSE Row(i, MyPhone, "model", finalContent("model", Reply(i \div 2)))]
Spoken(n) ==
  [i \in 1 .. 2 * n |->
     IF i % 2 = 1 THEN Message(NoId, "user", TextA, "none")
     ELSE Message(NoId, "model", Reply(i \div 2), "none")]

RateInit ==
  /\ userPhone = MyPhone
  /\ \E n \in 1 .. MaxExchanges :
       /\ rows = Conversation(n)
       /\ \/ /\ chatMessages = Spoken(n)
             /\ chatInstance = createPsychologistChat(Fixture, Profile, <<>>)
          \/ /\ chatMessages = getChatHistory(MyPhone)
             /\ chatInstance = createPsychologistChat(Fixture, Profile, chatMessages)
  /\ sendPhase = "idle"
  /\ stream = <<>>
  /\ sentText = <<>>
  /\ calls = <<>>
  /\ chatEv = [op |-> "idle", index |-> 0, call |-> NoCall]
  /\ inputs = 0
  /\ sentAt = 0

\* The user clicks under any assistant message, once the previous click has
\* been served.
ClickAny(index, newRating) ==
  /\ index \in Rateable
  /\ calls = <<>>
  /\ inputs < MaxClicks
  /\ handleRateMessage(index, newRating)

NextRate ==
  \/ \E index \in Rateable, newRating \in {"like", "dislike"} :
       ClickAny(index, newRating)
  \/ \E k \in 1 .. Len(calls), reply \in LookupReplies : RateLookup(k, reply)
  \/ \E k \in 1 .. Len(calls), ok \in BOOLEAN : RatePatch(k, ok)

InitRate ==
  ResultShown /\ ScoreIdle /\ CodecIdle /\ PhoneIdle /\ RegisterIdle /\ SessionIdle /\ RateInit

SpecRate == InitRate /\ [][NextRate]_vars

\* the row that holds the message, and the rating it decodes to
StoredRating(id) ==
  decodeRow(rows[CHOOSE j \in 1 .. Len(rows) : rows[j].id = id].content).rating

ChatTypeOK ==
  /\ inputs \in 0 .. MaxInputs
  /\ \A i \in 1 .. Len(rows) : rows[i].id = i
  /\ Len(calls) <= MaxInputs
  /\ sendPhase \in {"loading", "idle", "streaming", "saveUser", "saveModel"}

(***************************************************************************)
(* Properties of the chat session                                          *)
(***************************************************************************)
\* positions of s where a bracket tag starts
TagsIn(s) == { i \in 1 .. Len(s) : \E tag \in AnyTag : OccursAt(s, i, tag) }
RowOf(id) == rows[CHOOSE i \in 1 .. Len(rows) : rows[i].id = id]

\* C11 as stated: after a rating change has been written to a stored message,
\* its content ends with the bracket tag of that rating and holds no other
\* bracket tag, however many rating changes came before.
C11_OneTrailingTagAfterRating ==
  chatEv.op = "patch" =>
    LET content == RowOf(chatEv.call.recordId).content
    IN /\ EndsWith(content, newSuffix(chatEv.call.rating))
       /\ Cardinality(TagsIn(content)) = 1

Clicked == chatEv.op \in {"like", "dislike"}

\* C12: a click with the value the message already carries leaves the message
\* unrated in local state and hands rateMessage a null rating, and the write
\* of a null rating ends the row with the neutral tag.
C12_SameValueClearsRating ==
  /\ Clicked /\ chatEv.call.message.rating = chatEv.op
       => /\ chatMessages[chatEv.index].rating = "none"
          /\ chatEv.call.rating = "none"
  /\ chatEv.op = "patch" /\ chatEv.call.rating = "none"
       => EndsWith(RowOf(chatEv.call.recordId).content, TagNeutral)

\* the second of two like clicks has been written to a row that carried like
C12_Witness ==
  /\ chatEv.op = "patch"
  /\ chatEv.call.message.rating = "like"
  /\ chatEv.call.rating = "none"
  /\ \E i \in 1 .. Len(chatMessages) :
       /\ chatMessages[i].id = chatEv.call.recordId
       /\ chatMessages[i].rating = "none"
  /\ inputs = 2
  /\ RowOf(chatEv.call.recordId).content = TextB \o TagNeutral

\* ids of the QueryLimit most recent rows of a phone and role
SameKey(i, phone, role) == rows[i].phone = phone /\ rows[i].role = role
RecentIds(phone, role) ==
  { i \in 1 .. Len(rows) :
      /\ SameKey(i, phone, role)
      /\ Cardinality({ j \in i + 1 .. Len(rows) : SameKey(j, phone, role) }) < QueryLimit }
\* those of them whose decoded text is the text of the message
DecodedMatches(msg) ==
  { i \in RecentIds(userPhone, msg.role) : decodeRow(rows[i].content).text = msg.text }
Newest(S) == CHOOSE i \in S : \A j \in S : i >= j

\* the fallback lookup of an id-less message has been answered
FallbackAnswered ==
  /\ chatEv.op \in {"lookup", "rate_dropped"}
  /\ chatEv.call.message.id = NoId

\* C13 as stated: for a message without id the lookup selects, among the 5
\* most recent rows of the same phone and role, the most recent row whose
\* decoded text equals the message text, re-encodes that row's content with
\* the new rating and writes it to that row.
C13_FallbackSelectsNewestDecodedMatch ==
  /\ FallbackAnswered =>
       LET hits == DecodedMatches(chatEv.call.message)
       IN IF hits = {} THEN chatEv.op = "rate_dropped"
          ELSE /\ chatEv.op = "lookup"
               /\ chatEv.call.recordId = Newest(hits)
               /\ chatEv.call.newContent =
                    newContent(rows[Newest(hits)].content, chatEv.call.rating)
  /\ chatEv.op = "patch" /\ chatEv.call.message.id = NoId
       => RowOf(chatEv.call.recordId).content = chatEv.call.newContent

\* the queried rows that the lookup's comparison takes for the message
QueriedMatches(msg) ==
  { i \in RecentIds(userPhone, msg.role) : cleanContent(rows[i].content) = msg.text }

\* C14: when the lookup of an id-less message is answered and none of the
\* queried rows matches its text, the call returns there: it did not reach
\* the error handler, no PATCH of it is pending, and every row and every
\* local message (the toggle included) is as before.
C14_NoMatchNoWrite ==
  [][ /\ chatEv'.op \in {"lookup", "rate_dropped"}
      /\ chatEv'.call.message.id = NoId
      /\ QueriedMatches(chatEv'.call.message) = {}
      => /\ chatEv'.op = "rate_dropped"
         /\ rows' = rows
         /\ chatMessages' = chatMessages
         /\ \A k \in 1 .. Len(calls') : calls'[k].stage # "patch" ]_vars

C14_Witness ==
  /\ chatEv.op = "rate_dropped"
  /\ chatEv.call.rating = "like"
  /\ chatMessages[Len(chatMessages)].rating = "like"
  /\ chatMessages[Len(chatMessages)].text = TextA
  /\ \E i \in 1 .. Len(rows) :
       SameKey(i, userPhone, "model") /\ cleanContent(rows[i].content) = TextA

\* C15 as stated: for a message with a known id whose row has been fetched
\* again, the PATCH goes to the row with that id and carries that row's
\* current content decoded and encoded again with the new rating.
C15_KnownIdReencodesStoredRow ==
  /\ chatEv.op = "lookup" /\ chatEv.call.message.id # NoId
       => /\ chatEv.call.recordId = chatEv.call.message.id
          /\ chatEv.call.newContent =
               decodeRow(RowOf(chatEv.call.message.id).content).text
                 \o newSuffix(chatEv.call.rating)
  /\ chatEv.op = "patch" /\ chatEv.call.message.id # NoId
       => RowOf(chatEv.call.message.id).content = chatEv.call.newContent

\* the rows a step stored or patched
Written(i) == i > Len(rows) \/ rows'[i] # rows[i]

\* C24: whatever the session appends and rates, every row it stores or
\* patches for an assistant message ends in a bracket tag (the neutral tag
\* when the row is stored), and every row it stores for a user message is
\* the raw text; rows of user messages are never patched.
C24_AssistantRowsTaggedUserRowsRaw ==
  [][\A i \in 1 .. Len(rows') :
       Written(i) =>
         /\ rows'[i].role = "model" =>
              /\ \E tag \in AnyTag : EndsWith(rows'[i].content, tag)
              /\ i > Len(rows) => EndsWith(rows'[i].content, TagNeutral)
         /\ rows'[i].role = "user" =>
              /\ i > Len(rows)
              /\ rows'[i].content = sentText]_vars

C24_Witness ==
  /\ chatEv.op = "patch"
  /\ Len(rows) = 2
  /\ rows[1] = Row(1, MyPhone, "user", TextA)
  /\ rows[2].role = "model" /\ EndsWith(rows[2].content, TagLike)

\* C25: in every reachable state no message held by the component has a
\* bracket tag in its text, be it decoded from history, typed by the user,
\* streamed or finished, or an apology.
C25_NoTagInMessageText ==
  \A i \in 1 .. Len(chatMessages) : ~Carries(chatMessages[i].text, AnyTag)

Anonymous == normalizePhoneNumber(userPhone) = Sentinel

\* C26: when the stored phone canonicalizes to the sentinel, no step stores
\* or patches a row, no rateMessage request is in flight, and the history
\* shown is empty whatever rows the table holds under the sentinel.
C26_SentinelNoRemoteTraffic ==
  [][Anonymous =>
       /\ rows' = rows
       /\ calls' = <<>>
       /\ chatEv'.op \in {"history", "history_failed"} => chatMessages' = <<>>]_vars

C26_Witness ==
  /\ Anonymous
  /\ \E i \in 1 .. Len(rows) : rows[i].phone = Sentinel
  /\ sendPhase = "idle"
  /\ Len(chatMessages) = 2
  /\ chatMessages[1] = Message(NoId, "user", TextA, "none")
  /\ chatMessages[2] = Message(NoId, "model", TextA, "like")
  /\ chatEv.op = "like"

OwnRows == SelectSeq(rows, LAMBDA r : r.phone = normalizePhoneNumber(userPhone))

\* C27: the history loaded is the complete log of the phone: one message for
\* every row stored under the canonical phone, in the order of creation,
\* each decoded from its row, however many rows there are.
C27_HistoryIsCompleteLog ==
  chatEv.op = "history" /\ ~Anonymous =>
    LET own == OwnRows
    IN /\ Len(chatMessages) = Len(own)
       /\ \A i \in 1 .. Len(chatMessages) :
            chatMessages[i] = Message(own[i].id, own[i].role,
                                      decodeRow(own[i].content).text,
                                      decodeRow(own[i].content).rating)

LastMessage(messages) == messages[Len(messages)]
Stored(role, content) ==
  Row(Len(rows) + 1, normalizePhoneNumber(userPhone), role, content)

\* C28: in a send, every chunk received puts the cleaned text received so
\* far in the assistant message shown, and stores nothing; rows are stored
\* only once the stream has ended: first the user message, then the finished
\* reply, one request each.
C28_ShownPerChunkStoredOnceAfterStream ==
  [][/\ chatEv'.op = "chunk" =>
          /\ LastMessage(chatMessages') =
               Message(NoId, "model", replaceTags(Flatten(stream')), "none")
          /\ Len(stream') = Len(stream) + 1
     /\ sendPhase \notin {"saveUser", "saveModel"} => rows' = rows
     /\ sendPhase' = "saveUser" => sendPhase = "streaming" /\ chatEv'.op = "stream_end"
     /\ sendPhase = "saveUser" =>
          /\ sendPhase' = "saveModel"
          /\ rows' \in {rows, Append(rows, Stored("user", sentText))}
     /\ sendPhase = "saveModel" =>
          /\ sendPhase' = "idle"
          /\ rows' \in {rows, Append(rows, Stored("model", cleanFullText \o TagNeutral))}
    ]_vars

C28_Witness ==
  /\ chatEv.op = "save_model"
  /\ inputs = 3
  /\ Len(chatMessages) = 2
  /\ chatMessages[2].text = TextA \o TextA
  /\ rows = << Row(1, MyPhone, "user", TextA),
               Row(2, MyPhone, "model", TextA \o TextA \o TagNeutral) >>

\* C29: when the chat service fails during a send, before the first chunk or
\* after some, the apology is appended as an assistant message, nothing is
\* stored, the sending flag is cleared and the next send is accepted.
C29_FailureAppendsApologyAndFreesSend ==
  [][/\ chatEv'.op = "stream_error" =>
          /\ sendPhase = "streaming"
          /\ \E apology \in {ErrorMsg, QuotaMsg, LimitMsg} :
               chatMessages' = Append(chatMessages, Message(NoId, "model", apology, "none"))
          /\ rows' = rows
          /\ sendPhase' = "idle"
     /\ chatEv.op = "stream_error" /\ inputs < MaxInputs =>
          /\ ENABLED handleSendMessage(TextA)
          /\ chatEv'.op = "send" =>
               /\ sendPhase' = "streaming"
               /\ LastMessage(chatMessages') = Message(NoId, "user", TextA, "none")
    ]_vars

C29_Witness ==
  /\ chatEv.op = "send"
  /\ Len(chatMessages) = 4
  /\ chatMessages[2] = Message(NoId, "model", TextA, "none")
  /\ chatMessages[3] = Message(NoId, "model", QuotaMsg, "none")
  /\ chatMessages[4] = Message(NoId, "user", TextA, "none")
  /\ sendPhase = "streaming"

\* C36: a rating written to the store changes only the trailing tag of the
\* row it goes to: the row decodes to the same display text before and after
\* the write, whatever its content was, and every other row is as before.
C36_RatingWriteKeepsDisplayText ==
  [][chatEv'.op = "patch" =>
       /\ Len(rows') = Len(rows)
       /\ \A i \in 1 .. Len(rows) :
            IF rows[i].id = chatEv'.call.recordId
            THEN /\ decodeRow(rows'[i].content).text = decodeRow(rows[i].content).text
                 /\ rows'[i] = [rows[i] EXCEPT !.content = rows'[i].content]
            ELSE rows'[i] = rows[i]
    ]_vars

\* C38: a user message that was stored comes back in the history with the
\* text the user sent and without a rating, whatever the text.
C38_UserTextComesBackUnrated ==
  chatEv.op = "history" =>
    LET own == OwnRows
    IN \A i \in 1 .. Len(own) :
         own[i].role = "user" =>
           /\ i <= Len(chatMessages)
           /\ chatMessages[i].role = "user"
           /\ chatMessages[i].text = own[i].content
           /\ chatMessages[i].rating = "none"

\* rows of the phone and role of the message that decode to its text
RowsOfMessage(msg) ==
  { j \in 1 .. Len(rows) :
      /\ SameKey(j, userPhone, msg.role)
      /\ decodeRow(rows[j].content).text = msg.text }

\* C40 as stated: when the lookup of a call on a stored assistant message is
\* answered, the call goes on to the PATCH of the row of that message,
\* however many rows of the role are newer; the PATCH writes the rating there.
C40_RatingReachesItsRow ==
  /\ chatEv.op \in {"lookup", "rate_dropped"}
       /\ RowsOfMessage(chatEv.call.message) # {}
       => /\ chatEv.op = "lookup"
          /\ chatEv.call.recordId \in RowsOfMessage(chatEv.call.message)
  /\ chatEv.op = "patch" =>
       /\ chatEv.call.recordId \in RowsOfMessage(chatEv.call.message)
       /\ StoredRating(chatEv.call.recordId) = chatEv.call.rating

\* C40: a call on a message with a known id goes to the row of that id; a
\* call on a message without id goes to one of the QueryLimit most recent
\* rows of the phone and role, or to none; the PATCH writes the rating of
\* the call to the row the lookup settled on.
C40_RatingReachesRecentRows ==
  /\ chatEv.op \in {"lookup", "lookup_failed"} =>
       IF chatEv.call.message.id # NoId
       THEN chatEv.call.recordId = chatEv.call.message.id
       ELSE /\ chatEv.call.recordId \in RecentIds(userPhone, chatEv.call.message.role)
            /\ chatEv.call.recordId = Newest(QueriedMatches(chatEv.call.message))
  /\ chatEv.op = "rate_dropped" =>
       /\ chatEv.call.message.id = NoId
       /\ QueriedMatches(chatEv.call.message) = {}
  /\ chatEv.op = "patch" =>
       /\ chatEv.call.message.id # NoId => chatEv.call.recordId = chatEv.call.message.id
       /\ StoredRating(chatEv.call.recordId) = chatEv.call.rating

\* the first reply of a conversation made on this page was rated when
\* QueryLimit later replies had been stored: the call was dropped
C40_Witness ==
  /\ chatEv.op = "rate_dropped"
  /\ chatEv.call.message.id = NoId
  /\ chatEv.call.message.text = Reply(1)
  /\ chatEv.call.rating = "like"
  /\ RowsOfMessage(chatEv.call.message) = {2}
  /\ 2 \notin RecentIds(userPhone, "model")
  /\ chatMessages[2].rating = "like"
  /\ rows[2].content = Reply(1) \o TagNeutral

(***************************************************************************)
(* Register view: the form, isRegistrationValid, handleRegistrationContinue *)
(* (part_000) and registerUser (dataService.ts)                             *)
(***************************************************************************)
\* a number is a one-element sequence, NaN the empty one
NaN == <<>>

\* the value of a run of decimal digits
RECURSIVE DigitsValue(_)
DigitsValue(ds) ==
  IF ds = <<>> THEN 0
  ELSE 10 * DigitsValue(SubSeq(ds, 1, Len(ds) - 1))
         + (CHOOSE v \in 0 .. 9 : ToString(v) = ds[Len(ds)])

RECURSIVE LeadingDigits(_)
LeadingDigits(str) ==
  IF str # <<>> /\ Head(str) \in Digits
  THEN <<Head(str)>> \o LeadingDigits(Tail(str))
  ELSE <<>>

\* parseInt: leading whitespace, a sign, then the digits up to the first
\* other character; NaN when there is no digit
parseInt(str) ==
  LET t == trimStart(str)
      signed == t # <<>> /\ Head(t) \in {"-", "+"}
      ds == LeadingDigits(IF signed THEN Tail(t) ELSE t)
  IN IF ds = <<>> THEN NaN
     ELSE IF signed /\ Head(t) = "-" THEN <<0 - DigitsValue(ds)>>
     ELSE <<DigitsValue(ds)>>

MinNameLength == 2
MaxAge == 100
MinPasswordLength == 6

isRegistrationValid(reg, confirm) ==
  /\ Len(trim(reg.firstName)) >= MinNameLength
  /\ Len(trim(reg.lastName)) >= MinNameLength
  /\ Len(trim(reg.age)) > 0
  /\ parseInt(reg.age) # NaN /\ parseInt(reg.age)[1] > 0
  /\ parseInt(reg.age) # NaN /\ parseInt(reg.age)[1] <= MaxAge
  /\ Len(digitsOf(reg.phone)) = KeyLength
  /\ Len(reg.password) >= MinPasswordLength
  /\ reg.password = confirm

\* handlePhoneChange: the phone field keeps the digits typed, led by 8, cut
\* to 11 and set out as "8 XXX XXX XX XX"
handlePhoneChange(raw) ==
  LET digits == digitsOf(raw)
      seven == IF Head(digits) = "7" THEN <<"8">> \o Tail(digits) ELSE digits
      led == IF Head(seven) # "8" THEN <<"8">> \o seven ELSE seven
      clean == IF Len(led) > KeyLength THEN SubSeq(led, 1, KeyLength) ELSE led
      group(from, to) ==
        IF Len(clean) >= from
        THEN <<" ">> \o SubSeq(clean, from, IF Len(clean) < to THEN Len(clean) ELSE to)
        ELSE <<>>
  IN IF digits = <<>> THEN <<>>
     ELSE <<clean[1]>> \o group(2, 4) \o group(5, 7) \o group(8, 9) \o group(10, 11)

\* What can stand in each field of the form (the age field is a number input)
FirstNames == { <<>>, <<"A", " ">>, <<"A", "l">> }
LastNames == { <<"B">>, <<"B", "o">> }
Ages == { <<>>, <<"0">>, <<"2", "5">>, <<"1", "0", "1">>, <<"-", "5">> }
TypedPhones ==
  { <<>>, <<"9", "1", "5">>, NationalTail,
    Typed(<<"+", "7">>, NationalTail, "punctuated") }
FormPhones == { handlePhoneChange(raw) : raw \in TypedPhones }
Passwords == { <<"1", "2", "3", "4", "5">>, <<"1", "2", "3", "4", "5", "6">> }
Fields == {"firstName", "lastName", "age", "phone", "password"}
FieldValues(field) ==
  IF field = "firstName" THEN FirstNames
  ELSE IF field = "lastName" THEN LastNames
  ELSE IF field = "age" THEN Ages
  ELSE IF field = "phone" THEN FormPhones
  ELSE Passwords

Forms ==
  [firstName : FirstNames, lastName : LastNames, age : Ages, phone : FormPhones,
   password : Passwords]

\* the user makes at most MaxRegInputs more edits and submissions
MaxRegInputs == 2

\* registerUser: the row sent
payload(user) ==
  [phone |-> normalizePhoneNumber(user.phone), first_name |-> user.firstName,
   last_name |-> user.lastName, password |-> user.password,
   age |-> IF parseInt(user.age) = NaN THEN 0 ELSE parseInt(user.age)[1]]

\* POST with Prefer: resolution=merge-duplicates
upsert(table, row) ==
  LET merged(old) == [f \in DOMAIN old \cup DOMAIN row |->
                        IF f \in DOMAIN row THEN row[f] ELSE old[f]]
  IN IF \E r \in table : r.phone = row.phone
     THEN { IF r.phone = row.phone THEN merged(r) ELSE r : r \in table }
     ELSE table \cup {row}

\* The register view is open and the form is filled in some way.
RegisterInit ==
  /\ view = "register"
  /\ currentStep = 0
  /\ isAnimating = FALSE
  /\ isPulsing = FALSE
  /\ isShattering = FALSE
  /\ isSending = FALSE
  /\ answers = EmptyAnswers
  /\ result = NoResult
  /\ cachedResult = NoResult
  /\ registration \in Forms
  /\ confirmPassword \in Passwords
  /\ cachedUser = NoProfile
  /\ userPhone = <<>>
  /\ authError = ""
  /\ timers = <<>>
  /\ saves = <<>>
  /\ ev = "init"
  /\ commits = 0
  /\ resultSets = 0
  /\ resetTimer = ResetDelay
  /\ profiles = {}
  /\ registerCalls = <<>>
  /\ regEv = [op |-> "open"]
  /\ regInputs = 0

\* onChange of a field of the form
EditField(field, value) ==
  /\ view = "register"
  /\ regInputs < MaxRegInputs
  /\ value \in FieldValues(field)
  /\ registration' = [registration EXCEPT ![field] = value]
  /\ registration' # registration
  /\ regInputs' = regInputs + 1
  /\ regEv' = [op |-> "edit"]
  /\ UNCHANGED <<view, isSending, authError, cachedUser, userPhone,
                 confirmPassword, profiles, registerCalls, nonRegisterVars>>

\* onChange of the repeated password
EditConfirm(value) ==
  /\ view = "register"
  /\ regInputs < MaxRegInputs
  /\ value \in Passwords
  /\ confirmPassword' = value
  /\ confirmPassword' # confirmPassword
  /\ regInputs' = regInputs + 1
  /\ regEv' = [op |-> "edit"]
  /\ UNCHANGED <<view, isSending, authError, cachedUser, userPhone,
                 registration, profiles, registerCalls, nonRegisterVars>>

\* handleRegistrationContinue up to `await registerUser(registration)`
handleRegistrationContinue(path) ==
  /\ isSending' = TRUE
  /\ authError' = ""
  /\ registerCalls' = Append(registerCalls, [registration |-> registration,
                                            confirmPassword |-> confirmPassword])
  /\ regInputs' = regInputs + 1
  /\ regEv' = [op |-> path]
  /\ UNCHANGED <<view, cachedUser, userPhone, registration, confirmPassword,
                 profiles, nonRegisterVars>>

\* the submit button: disabled={!isRegistrationValid || isSending}
ClickRegister ==
  /\ view = "register"
  /\ regInputs < MaxRegInputs
  /\ isRegistrationValid(registration, confirmPassword)
  /\ ~isSending
  /\ handleRegistrationContinue("button")

\* Enter in the repeated-password field:
\* onKeyDown={(e) => e.key === 'Enter' && handleRegistrationContinue()}
EnterInConfirm ==
  /\ view = "register"
  /\ regInputs < MaxRegInputs
  /\ handleRegistrationContinue("enter")

\* registerUser returns: the row was merged (ok) or the request failed
RegisterReturns(k, ok) ==
  /\ k \in 1 .. Len(registerCalls)
  /\ LET call == registerCalls[k]
     IN /\ profiles' = IF ok THEN upsert(profiles, payload(call.registration))
                       ELSE profiles
        /\ isSending' = FALSE
        /\ IF ok
           THEN /\ cachedUser' = call.registration
                /\ userPhone' = normalizePhoneNumber(call.registration.phone)
                /\ view' = "interests"
                /\ UNCHANGED authError
           ELSE /\ authError' = "register_failed"
                /\ UNCHANGED <<cachedUser, userPhone, view>>
        /\ regEv' = [op |-> IF ok THEN "registered" ELSE "register_failed",
                     call |-> call]
  /\ registerCalls' = RemoveAt(registerCalls, k)
  /\ UNCHANGED <<registration, confirmPassword, regInputs, nonRegisterVars>>

NextRegister ==
  \/ \E field \in Fields : \E value \in FieldValues(field) : EditField(field, value)
  \/ \E value \in Passwords : EditConfirm(value)
  \/ ClickRegister
  \/ EnterInConfirm
  \/ \E k \in 1 .. Len(registerCalls), ok \in BOOLEAN : RegisterReturns(k, ok)

InitRegister ==
  /\ RegisterInit
  /\ ScoreIdle /\ CodecIdle /\ PhoneIdle
  /\ rows = <<>> /\ chatMessages = <<>> /\ sendPhase = "closed" /\ stream = <<>>
  /\ sentText = <<>> /\ calls = <<>> /\ inputs = 0
  /\ chatEv = [op |-> "closed", index |-> 0, call |-> NoCall]
  /\ chatInstance = NoContext /\ sentAt = 0
  /\ SessionIdle

SpecRegister == InitRegister /\ [][NextRegister]_vars

\* C30: a registration whose fields fail validation never takes the view
\* from register to interests, whichever way it was submitted, and writes
\* neither the local cache nor the profile table.
C30_InvalidRegistrationBlocked ==
  [][\/ view' # view
     \/ cachedUser' # cachedUser
     \/ userPhone' # userPhone
     \/ profiles' # profiles
     => /\ regEv'.op = "registered"
        /\ isRegistrationValid(regEv'.call.registration, regEv'.call.confirmPassword)
    ]_vars

(***************************************************************************)
(* Authentication: the welcome, auth_choice, login, register, interests    *)
(* and tutorial views (part_000), loginUser and updateUserProfile          *)
(* (dataService.ts)                                                        *)
(***************************************************************************)
\* useState<RegistrationData> of the component
EmptyForm ==
  [firstName |-> <<>>, lastName |-> <<>>, age |-> <<>>, phone |-> <<>>,
   password |-> <<>>]

\* Number.prototype.toString of a non-negative integer
RECURSIVE toString(_)
toString(n) ==
  LET digit == CHOOSE d \in Digits : DigitsValue(<<d>>) = n % 10
  IN IF n < 10 THEN <<digit>> ELSE toString(n \div 10) \o <<digit>>

\* a row of quiz_results that holds the result of a finished test, or none
Account(phone, password, scored) ==
  [phone |-> phone, first_name |-> <<"A", "l">>, last_name |-> <<"B", "o">>,
   password |-> password, age |-> 25, personality_type |-> scored.type,
   ei_score |-> scored.EI, sn_score |-> scored.SN, ft_score |-> scored.FT,
   jp_score |-> scored.JP]

RightPassword == <<"1", "2", "3", "4", "5", "6">>
WrongPassword == <<"1", "2", "3", "4", "5">>

\* the accounts on record: one finished the test, one only registered
Accounts ==
  { Account(MyPhone, RightPassword, Fixture),
    Account(OtherPhone, RightPassword, NoResult) }

\* what the user types into the login form
LoginPhones ==
  { <<>>, <<"8">> \o Tail(MyPhone), <<"+">> \o OtherPhone, <<"7">> \o NationalTail }
LoginPasswords == { <<>>, RightPassword, WrongPassword }
LoginReplies == {"ok", "httpError", "throws"}

\* loginUser: the value it resolves to
loginUser(phone, password, reply) ==
  LET cleanPhone == normalizePhoneNumber(phone)
      data == { r \in profiles : r.phone = cleanPhone }
      dbRow == CHOOSE r \in data : TRUE
  IN IF reply # "ok" THEN [kind |-> "null"]
     ELSE IF data = {} THEN [kind |-> "error", error |-> "not_found"]
     ELSE IF dbRow.password # password
     THEN [kind |-> "error", error |-> "wrong_password"]
     ELSE [kind |-> "data",
           user |-> [firstName |-> dbRow.first_name, lastName |-> dbRow.last_name,
                     phone |-> dbRow.phone, age |-> toString(dbRow.age),
                     password |-> dbRow.password],
           result |-> IF "personality_type" \in DOMAIN dbRow
                         /\ dbRow.personality_type # <<>>
                      THEN [type |-> dbRow.personality_type, EI |-> dbRow.ei_score,
                            SN |-> dbRow.sn_score, FT |-> dbRow.ft_score,
                            JP |-> dbRow.jp_score]
                      ELSE NoResult]

\* what the pre-test views leave alone
nonAuthVars ==
  <<currentStep, isAnimating, isPulsing, isShattering, answers, timers, saves, ev,
    commits, resultSets, resetTimer, scoreVars, codecVars, rows, chatMessages,
    sendPhase, stream, sentText, calls, chatEv, inputs, chatInstance, sentAt,
    phoneVars>>

\* a button that only calls setView
Navigate(from, to) ==
  /\ view = from
  /\ view' = to
  /\ regEv' = [op |-> "navigate"]
  /\ UNCHANGED <<isSending, authError, registration, cachedUser, userPhone, result,
                 cachedResult, confirmPassword, profiles, registerCalls, regInputs,
                 sessionVars, nonAuthVars>>

\* welcome: the start button
ClickStart ==
  Navigate("welcome", IF registration.phone # <<>> THEN "interests" ELSE "auth_choice")

\* auth_choice: the three buttons
ChooseLogin == Navigate("auth_choice", "login")
ChooseRegister == Navigate("auth_choice", "register")
BackToWelcome == Navigate("auth_choice", "welcome")

\* login: the cancel button; register: the back arrow
CancelLogin == Navigate("login", "auth_choice")
BackFromRegister == Navigate("register", "auth_choice")

\* the login button, disabled={isSending}: handleLogin up to `await loginUser`
handleLogin(loginPhone, loginPass) ==
  /\ view = "login"
  /\ ~isSending
  /\ regInputs < MaxRegInputs
  /\ regInputs' = regInputs + 1
  /\ IF loginPhone = <<>> \/ loginPass = <<>>
     THEN /\ authError' = "login_empty"
          /\ regEv' = [op |-> "login_empty"]
          /\ UNCHANGED <<isSending, loginCalls>>
     ELSE /\ isSending' = TRUE
          /\ authError' = ""
          /\ loginCalls' = Append(loginCalls, [phone |-> loginPhone,
                                              password |-> loginPass])
          /\ regEv' = [op |-> "login"]
  /\ UNCHANGED <<view, registration, cachedUser, userPhone, result, cachedResult,
                 confirmPassword, profiles, registerCalls, retake, nonAuthVars>>

\* loginUser returns: the rest of handleLogin
LoginReturns(k, reply) ==
  /\ k \in 1 .. Len(loginCalls)
  /\ LET call == loginCalls[k]
         data == loginUser(call.phone, call.password, reply)
         isRetake == retake
     IN /\ IF data.kind = "data"
           THEN /\ registration' = data.user
                /\ cachedUser' = data.user
                /\ userPhone' = normalizePhoneNumber(data.user.phone)
                /\ retake' = FALSE
                /\ IF data.result # NoResult /\ ~isRetake
                   THEN /\ result' = data.result
                        /\ cachedResult' = data.result
                        /\ view' = "result"
                   ELSE /\ view' = IF isRetake THEN "welcome" ELSE "interests"
                        /\ UNCHANGED <<result, cachedResult>>
                /\ UNCHANGED authError
           ELSE /\ authError' = IF data.kind = "error" THEN data.error
                                ELSE "server_error"
                /\ UNCHANGED <<registration, cachedUser, userPhone, retake, result,
                               cachedResult, view>>
        /\ regEv' = [op |-> IF data.kind = "data" THEN "logged_in" ELSE "login_failed"]
  /\ isSending' = FALSE
  /\ loginCalls' = RemoveAt(loginCalls, k)
  /\ UNCHANGED <<confirmPassword, profiles, registerCalls, regInputs, nonAuthVars>>

\* interests: the continue button.  The profile is cached, updateUserProfile
\* is awaited (its POST is merged, or lost: errors are swallowed), then the
\* view is set.
ContinueToTutorial(ok) ==
  /\ view = "interests"
  /\ cachedUser' = registration
  /\ profiles' = IF ok THEN upsert(profiles, payload(registration)) ELSE profiles
  /\ view' = "tutorial"
  /\ regEv' = [op |-> "interests"]
  /\ UNCHANGED <<isSending, authError, registration, userPhone, result, cachedResult,
                 confirmPassword, registerCalls, regInputs, sessionVars, nonAuthVars>>

\* the user fills in the register form: the onChange events of its fields,
\* one after another
FillForm(form, confirm) ==
  /\ view = "register"
  /\ regInputs < MaxRegInputs
  /\ form \in Forms
  /\ confirm \in Passwords
  /\ registration' = form
  /\ confirmPassword' = confirm
  /\ regInputs' = regInputs + 1
  /\ regEv' = [op |-> "edit"]
  /\ UNCHANGED <<view, isSending, authError, cachedUser, userPhone, profiles,
                 registerCalls, nonRegisterVars>>

\* The page is loaded with no result in the cache; the retake flag may be
\* left from a reset of an earlier visit.
AuthInit ==
  /\ view = "welcome"
  /\ currentStep = 0
  /\ isAnimating = FALSE
  /\ isPulsing = FALSE
  /\ isShattering = FALSE
  /\ isSending = FALSE
  /\ answers = EmptyAnswers
  /\ result = NoResult
  /\ cachedResult = NoResult
  /\ registration = EmptyForm
  /\ confirmPassword = <<>>
  /\ cachedUser = NoProfile
  /\ userPhone = <<>>
  /\ authError = ""
  /\ timers = <<>>
  /\ saves = <<>>
  /\ ev = "init"
  /\ commits = 0
  /\ resultSets = 0
  /\ resetTimer = ResetDelay
  /\ profiles = Accounts
  /\ registerCalls = <<>>
  /\ regEv = [op |-> "open"]
  /\ regInputs = 0
  /\ loginCalls = <<>>
  /\ retake \in BOOLEAN

NextAuth ==
  \/ ClickStart
  \/ ChooseLogin
  \/ ChooseRegister
  \/ BackToWelcome
  \/ CancelLogin
  \/ BackFromRegister
  \/ \E field \in Fields : \E value \in FieldValues(field) : EditField(field, value)
  \/ \E value \in Passwords : EditConfirm(value)
  \/ \E form \in Forms, confirm \in Passwords : FillForm(form, confirm)
  \/ ClickRegister
  \/ EnterInConfirm
  \/ \E k \in 1 .. Len(registerCalls), ok \in BOOLEAN : RegisterReturns(k, ok)
  \/ \E loginPhone \in LoginPhones, loginPass \in LoginPasswords :
       handleLogin(loginPhone, loginPass)
  \/ \E k \in 1 .. Len(loginCalls), reply \in LoginReplies : LoginReturns(k, reply)
  \/ \E ok \in BOOLEAN : ContinueToTutorial(ok)
  \/ StartQuiz

InitAuth ==
  /\ AuthInit
  /\ ScoreIdle /\ CodecIdle /\ PhoneIdle
  /\ rows = <<>> /\ chatMessages = <<>> /\ sendPhase = "closed" /\ stream = <<>>
  /\ sentText = <<>> /\ calls = <<>> /\ inputs = 0
  /\ chatEv = [op |-> "closed", index |-> 0, call |-> NoCall]
  /\ chatInstance = NoContext /\ sentAt = 0

SpecAuth == InitAuth /\ [][NextAuth]_vars

\* C33: the interests, tutorial and quiz views are shown only after a login
\* or a registration succeeded in the session (user_phone is written by
\* a successful login or registration, and by nothing else before the test).
C33_TestOnlyAfterAuthentication ==
  view \in {"interests", "tutorial", "quiz"} => userPhone # <<>>

(***************************************************************************)
(* Sessions: a respondent signs in, reads the result, talks to the         *)
(* assistant, starts over (resetAll), and the next respondent signs in on  *)
(* the same page (part_000).  Respondents sign in through the login view   *)
(* and press the middle circle on every question.                          *)
(***************************************************************************)
\* result view: the interval of the countdown, once a second
Countdown ==
  /\ view = "result"
  /\ resetTimer > 0
  /\ resetTimer' = resetTimer - 1
  /\ regEv' = [op |-> "countdown"]
  /\ UNCHANGED <<view, currentStep, isAnimating, isPulsing, isShattering, isSending,
                 answers, result, cachedResult, authError, timers, saves, ev,
                 commits, resultSets, registration, cachedUser, scoreVars, codecVars,
                 chatVars, phoneVars, confirmPassword, profiles, registerCalls,
                 regInputs, sessionVars>>

\* what the chat buttons of the result view leave alone
nonOverlayVars ==
  <<flowVars, scoreVars, codecVars, phoneVars, registerVars, sessionVars, rows,
    chatMessages, stream, sentText, calls, inputs, userPhone, chatInstance, sentAt>>

\* result view: the chat button sets showChat, and the initChat effect runs;
\* it loads the history when there is no context yet
OpenChat ==
  /\ view = "result"
  /\ sendPhase = "closed"
  /\ userPhone # <<>>
  /\ sendPhase' = IF chatInstance = NoContext /\ result # NoResult THEN "loading"
                  ELSE "idle"
  /\ chatEv' = Event("open", NoCall)
  /\ UNCHANGED nonOverlayVars

\* chat overlay: the back arrow
CloseChat ==
  /\ sendPhase = "idle"
  /\ sendPhase' = "closed"
  /\ chatEv' = Event("closed", NoCall)
  /\ UNCHANGED nonOverlayVars

\* result view: the reset button, disabled={resetTimer > 0}.  The overlay of
\* the chat covers the button.
resetAll ==
  /\ view = "result"
  /\ sendPhase = "closed"
  /\ resetTimer = 0
  /\ cachedUser' = NoProfile
  /\ cachedResult' = NoResult
  /\ userPhone' = <<>>
  /\ retake' = TRUE
  /\ view' = "auth_choice"
  /\ currentStep' = 0
  /\ answers' = EmptyAnswers
  /\ registration' = EmptyForm
  /\ confirmPassword' = <<>>
  /\ result' = NoResult
  /\ chatMessages' = <<>>
  /\ regEv' = [op |-> "reset"]
  /\ UNCHANGED <<isAnimating, isPulsing, isShattering, isSending, authError, timers,
                 saves, ev, commits, resultSets, resetTimer, scoreVars, codecVars,
                 phoneVars, rows, sendPhase, stream, sentText, calls, chatEv, inputs,
                 chatInstance, sentAt, profiles, registerCalls, regInputs, loginCalls>>

\* the chat_history table: a conversation of the first account, and a
\* message of the second
SessionRows ==
  <<Row(1, MyPhone, "user", TextA), Row(2, MyPhone, "model", TextB \o TagLike),
    Row(3, OtherPhone, "user", TextB)>>

NextSession ==
  \/ ClickStart
  \/ ChooseLogin
  \/ BackToWelcome
  \/ CancelLogin
  \/ \E loginPhone \in LoginPhones, loginPass \in LoginPasswords :
       handleLogin(loginPhone, loginPass)
  \/ \E k \in 1 .. Len(loginCalls), reply \in LoginReplies : LoginReturns(k, reply)
  \/ \E ok \in BOOLEAN : ContinueToTutorial(ok)
  \/ StartQuiz
  \/ ClickOption(3)
  \/ Tick
  \/ \E i \in 1 .. Len(timers) : PulseTimeout(i)
  \/ \E i \in 1 .. Len(timers) : AnimTimeout(i)
  \/ \E i \in 1 .. Len(timers) : SaturateTimeout(i)
  \/ \E i \in 1 .. Len(timers) : ShatterTimeout(i)
  \/ \E i \in 1 .. Len(saves) : \E o \in SaveOutcomes : SaveReturns(i, o)
  \/ Countdown
  \/ OpenChat
  \/ \E ok \in BOOLEAN : HistoryArrives(ok)
  \/ CloseChat
  \/ resetAll

InitSession ==
  /\ AuthInit
  /\ retake = FALSE
  /\ ScoreIdle /\ CodecIdle /\ PhoneIdle
  /\ rows = SessionRows
  /\ chatMessages = <<>> /\ sendPhase = "closed" /\ stream = <<>>
  /\ sentText = <<>> /\ calls = <<>> /\ inputs = 0
  /\ chatEv = [op |-> "closed", index |-> 0, call |-> NoCall]
  /\ chatInstance = NoContext /\ sentAt = 0

SpecSession == InitSession /\ [][NextSession]_vars

\* C31: while a respondent is signed in, the profile in use is the one of
\* the session's phone, the messages on the screen that were read from the
\* store are messages of that phone, and the conversational context, when
\* there is one, was seeded with the profile and the result of the session.
C31_NothingSurvivesReset ==
  userPhone # <<>> =>
    /\ registration.phone = userPhone
    /\ \A i \in 1 .. Len(chatMessages) :
         chatMessages[i].id # NoId =>
           \E j \in 1 .. Len(rows) :
             rows[j].id = chatMessages[i].id /\ rows[j].phone = userPhone
    /\ chatInstance # NoContext =>
         /\ chatInstance[1].user = registration
         /\ chatInstance[1].type = result.type
====
